---- MODULE Spec2Model ----
(***************************************************************************)
(* Model of the image compositing engine of Product-Card-Generator:        *)
(* PointValidator, CornerDetector defaults, PerspectiveTransformer         *)
(* construction and multi-area composition, and the PSD layer renderer     *)
(* (render-method chain, group clipping, photo tagging, render mode).      *)
(*                                                                         *)
(* Each component has its own specification over its own variables; the    *)
(* variables of the other components stay at their idle values.            *)
(***************************************************************************)
EXTENDS Integers, Sequences, FiniteSets, TLC

VARIABLES
    \* ---- PointValidator.validate_points / CornerDetector ----
    vpc,            \* "start" | "ready" | "done"
    points,         \* the point list handed to validate_points
    image_width,    \* image_width argument
    image_height,   \* image_height argument
    vresult,        \* "pending" | "ok" | "ValidationError"
    \* ---- PerspectiveTransformer.__init__ ----
    cpc,                \* "start" | "validate" | "done"
    template,           \* the template file: [status, width, height]
    arg_corner_points,  \* corner_points argument
    arg_point_sets,     \* point_sets argument: [given, sets], given = FALSE for None
    template_width,     \* self._template_width
    template_height,    \* self._template_height
    corner_points,      \* self.corner_points
    point_sets,         \* self._point_sets
    cresult,            \* "pending" | "constructed" | the exception raised
    \* ---- PerspectiveTransformer.transform_multiple ----
    tpc,            \* "call" | "loop" | "returned" | "raised"
    product_paths,  \* product_paths argument (paths or None)
    fs,             \* the file system: path -> "ok" | "missing" | "corrupt"
    valid_paths,    \* valid_paths local
    area_i,         \* loop index i over self._point_sets (0-based)
    used,           \* product_path chosen for each area processed so far
    result,         \* running result buffer: what each area shows
    errors,         \* errors list: <<file name, message>> pairs
    \* ---- PSDProcessor.process_with_warped_product ----
    ppc,            \* "collect" | "mode" | "dispatch" | "done"
    psd,            \* the document's top-level layers: [visible, product_kw, renders]
    product_layer,  \* position of the layer _find_product_layer returns, 0 for None
    layer_i,        \* number of layers the collection loop has passed
    product_found,  \* product_found local
    before_product, \* rendered layers before the product layer (positions)
    after_product,  \* rendered layers after the product layer (positions)
    failed_layers,  \* layers that failed to render (positions)
    render_mode,    \* render_mode local
    handler,        \* the processing method the call dispatched to
    \* ---- PSDProcessor._render_layer on a non-group layer ----
    lpc,            \* "composite" | "topil" | "pixel_data" | "place" | "done"
    leaf,           \* the layer: method outcomes, hasattr(topil), left, top
    attempted,      \* render methods attempted so far, in order
    img,            \* the image _try_render_methods returns
    method_used,    \* the method name _try_render_methods returns
    lresult,        \* what _render_layer returns: [ok, x, y, width, height]
    \* ---- PSDProcessor._render_group_layer ----
    gpc,            \* "start" | "loop" | "done"
    group,          \* the group's sublayers: [visible, clipping, render]
    sublayers,      \* sublayers local: the visible ones
    sub_i,          \* number of sublayers the loop has passed
    clipping_base,  \* clipping_base local: an alpha channel, <<>> for None
    composited,     \* per passed sublayer, the alpha it was composited with
    rendered_count, \* rendered_count local
    gresult,        \* "pending" | "None" | "image"
    \* ---- PSDProcessor._is_photo_layer on a rendered layer ----
    phpc,           \* "call" | "done"
    photo_layer,    \* the layer: [name, left, top, right, bottom]
    layer_image,    \* the RGBA render of the layer: [skin_pixels, visible_pixels]
    is_photo,       \* the tag _is_photo_layer returns
    \* ---- PSDProcessor.process_with_warped_product: the image it returns ----
    target_color,   \* target_color argument, <<>> for None
    warped_product, \* warped_product argument: [visible, size]
    layer_is_photo, \* is_photo of the LayerRenderResult of each layer
    warped_pil,     \* warped_pil local: [visible, size]
    flatten,        \* what psd.composite() did in the handler: "" | "ok" | "raise"
    product_bounds, \* what _get_product_layer_bounds returned, <<>> for None
    output,         \* the returned image: the stack of what was composited, bottom first
    returned,       \* "pending" | "image" | "exception"
    \* ---- the bounded caches, one thread ----
    cache_name,     \* the cache the run exercises
    caches,         \* each cache: its keys in insertion order (a dict keeps them so)
    next_key,       \* the first key that was never cached
    last_op,        \* the last operation: [op, key, hit, evicted, inserted]
    just_read,      \* the key the operation before the last returned from the cache, 0 if none
    \* ---- a shared cache under the generation thread and a preview request ----
    shared_name,    \* the cache the two threads share
    shared,         \* that cache: its keys in insertion order
    thread_pc,      \* per thread: "call" | "get" | "len" | "keys" | "del" | "set" | "done" | "raised"
    thread_key,     \* per thread: the key it asks for
    thread_keys_to_remove, \* per thread: keys_to_remove local, what is left to delete
    thread_error,   \* per thread: the exception raised, "" for none
    \* ---- PSDProcessor._recolor / _recolor_with_face_protection ----
    rpc,            \* "call" | "done"
    recolor_method, \* which of the two methods is called
    recolor_image,  \* image argument: [channels, pixels], a pixel is [rgb, alpha]
    final_mask,     \* final_mask_feathered, per pixel, 0..255
    rgb_recolored,  \* rgb_recolored, per pixel: the hue-shifted color
    recolor_result, \* the image returned
    \* ---- ColorAnalyzer.get_dominant_color ----
    dpc,            \* "call" | "done"
    image_pixels,   \* the RGB pixels of the resized image: how many of each color
    n_clusters,     \* self.n_clusters
    dominant,       \* what get_dominant_color returns: [kind, path, colors, boosted]
    \* ---- the rasters of PerspectiveTransformer and the decoded-image cache ----
    template_file,  \* the decoded template file
    raster_self,    \* the transformer: corner_points, point_sets, corner_radius, blend_strength
    raster_mem,     \* [template, cache]: self._template and _image_cache
    call_results,   \* call -> what it returned last
    ncalls,         \* calls made
    last_call,      \* the last call
    caller_wrote,   \* the caller has overwritten the array the last call returned
    repeated_differs, \* a repeated call returned something else than before
    \* ---- routers/generate.py ----
    is_running,     \* storage.generation_status.is_running
    cancel_flag,    \* _cancel_flag
    tasks,          \* the background tasks: position in process_generation and what they saw
    job,            \* what the requests resolve to: templates, folders, files per folder
    start_response, \* the last answer of POST /start
    stop_response,  \* the last answer of POST /stop
    \* ---- backend/app/storage.py ----
    stored,         \* storage.templates: template id -> [present, points, point_sets]
    last_update     \* the fields of the last update_template call

valVars == <<vpc, points, image_width, image_height, vresult>>
ctorVars == <<cpc, template, arg_corner_points, arg_point_sets, template_width,
              template_height, corner_points, point_sets, cresult>>
tmVars == <<tpc, product_paths, fs, valid_paths, area_i, used, result, errors>>

modeVars == <<ppc, psd, product_layer, layer_i, product_found, before_product,
              after_product, failed_layers, render_mode, handler>>

leafVars == <<lpc, leaf, attempted, img, method_used, lresult>>

groupVars == <<gpc, group, sublayers, sub_i, clipping_base, composited,
               rendered_count, gresult>>

photoVars == <<phpc, photo_layer, layer_image, is_photo>>

procVars == <<target_color, warped_product, layer_is_photo, warped_pil, flatten, product_bounds, output, returned>>

cacheVars == <<cache_name, caches, next_key, last_op, just_read>>

thrVars == <<shared_name, shared, thread_pc, thread_key, thread_keys_to_remove, thread_error>>

recolorVars == <<rpc, recolor_method, recolor_image, final_mask, rgb_recolored, recolor_result>>

dominantVars == <<dpc, image_pixels, n_clusters, dominant>>

rasterVars == <<template_file, raster_self, raster_mem, call_results, ncalls, last_call, caller_wrote, repeated_differs>>

genVars == <<is_running, cancel_flag, tasks, job, start_response, stop_response>>

storeVars == <<stored, last_update>>

vars == <<valVars, ctorVars, tmVars, modeVars, leafVars, groupVars, photoVars, procVars, cacheVars, thrVars, recolorVars, dominantVars, rasterVars, genVars, storeVars>>

\* the variables of the other components
notVal == <<ctorVars, tmVars, modeVars, leafVars, groupVars, photoVars, procVars, cacheVars, thrVars, recolorVars, dominantVars, rasterVars, genVars, storeVars>>
notCtor == <<valVars, tmVars, modeVars, leafVars, groupVars, photoVars, procVars, cacheVars, thrVars, recolorVars, dominantVars, rasterVars, genVars, storeVars>>
notTm == <<valVars, ctorVars, modeVars, leafVars, groupVars, photoVars, procVars, cacheVars, thrVars, recolorVars, dominantVars, rasterVars, genVars, storeVars>>
notMode == <<valVars, ctorVars, tmVars, leafVars, groupVars, photoVars, procVars, cacheVars, thrVars, recolorVars, dominantVars, rasterVars, genVars, storeVars>>
notLeaf == <<valVars, ctorVars, tmVars, modeVars, groupVars, photoVars, procVars, cacheVars, thrVars, recolorVars, dominantVars, rasterVars, genVars, storeVars>>
notGroup == <<valVars, ctorVars, tmVars, modeVars, leafVars, photoVars, procVars, cacheVars, thrVars, recolorVars, dominantVars, rasterVars, genVars, storeVars>>
notPhoto == <<valVars, ctorVars, tmVars, modeVars, leafVars, groupVars, procVars, cacheVars, thrVars, recolorVars, dominantVars, rasterVars, genVars, storeVars>>
notCache == <<valVars, ctorVars, tmVars, modeVars, leafVars, groupVars, photoVars, procVars, thrVars, recolorVars, dominantVars, rasterVars, genVars, storeVars>>
notProc == <<valVars, ctorVars, tmVars, modeVars, leafVars, groupVars, photoVars, cacheVars, thrVars, recolorVars, dominantVars, rasterVars, genVars, storeVars>>
notThr == <<valVars, ctorVars, tmVars, modeVars, leafVars, groupVars, photoVars, procVars, cacheVars, recolorVars, dominantVars, rasterVars, genVars, storeVars>>
notModeProc == <<valVars, ctorVars, tmVars, leafVars, groupVars, photoVars, cacheVars, thrVars, recolorVars, dominantVars, rasterVars, genVars, storeVars>>
notDominant == <<valVars, ctorVars, tmVars, modeVars, leafVars, groupVars, photoVars, procVars, cacheVars, thrVars, recolorVars, rasterVars, genVars, storeVars>>
notRecolor == <<valVars, ctorVars, tmVars, modeVars, leafVars, groupVars, photoVars, procVars, cacheVars, thrVars, dominantVars, rasterVars, genVars, storeVars>>
notGen == <<valVars, ctorVars, tmVars, modeVars, leafVars, groupVars, photoVars, procVars, cacheVars, thrVars, recolorVars, dominantVars, rasterVars, storeVars>>
notRaster == <<valVars, ctorVars, tmVars, modeVars, leafVars, groupVars, photoVars, procVars, cacheVars, thrVars, recolorVars, dominantVars, genVars, storeVars>>
notStore == <<valVars, ctorVars, tmVars, modeVars, leafVars, groupVars, photoVars, procVars, cacheVars, thrVars, recolorVars, dominantVars, rasterVars, genVars>>

None == "None"

(***************************************************************************)
(* Bounds                                                                  *)
(***************************************************************************)
CoordMax == 2
MaxSets == 3
MaxPaths == 3
MaxLayers == 5
MaxSub == 3

(***************************************************************************)
(* src/point_validator.py                                                  *)
(***************************************************************************)
\* def ccw(a, b, c)
ccw(a, b, c) == (c[2] - a[2]) * (b[1] - a[1]) > (b[2] - a[2]) * (c[1] - a[1])

\* def segments_intersect(p1, p2, p3, p4)
segments_intersect(p1, p2, p3, p4) ==
    (ccw(p1, p3, p4) # ccw(p2, p3, p4)) /\ (ccw(p1, p2, p3) # ccw(p1, p2, p4))

\* Mutant: the test applied to the two diagonals instead of the opposite edges.
is_self_intersecting_diagonals(pts) ==
    IF Len(pts) # 4 THEN TRUE
    ELSE segments_intersect(pts[1], pts[3], pts[2], pts[4])

\* Mutant: only the first pair of opposite edges is tested.
is_self_intersecting_first_pair(pts) ==
    IF Len(pts) # 4 THEN TRUE
    ELSE segments_intersect(pts[1], pts[2], pts[3], pts[4])

\* PointValidator.is_self_intersecting
is_self_intersecting(pts) ==
    IF Len(pts) # 4 THEN TRUE
    ELSE LET edges == << <<pts[1], pts[2]>>, <<pts[2], pts[3]>>,
                         <<pts[3], pts[4]>>, <<pts[4], pts[1]>> >>
         IN IF segments_intersect(edges[1][1], edges[1][2], edges[3][1], edges[3][2])
            THEN TRUE
            ELSE IF segments_intersect(edges[2][1], edges[2][2], edges[4][1], edges[4][2])
                 THEN TRUE
                 ELSE FALSE

\* Mutant: a coordinate-bounds check before the intersection test.
validate_points_bounded(pts, w, h) ==
    IF Len(pts) # 4 THEN "ValidationError"
    ELSE IF \E i \in 1..4 : pts[i][1] < 0 \/ pts[i][1] >= w \/ pts[i][2] < 0 \/ pts[i][2] >= h
         THEN "ValidationError"
         ELSE IF is_self_intersecting(pts) THEN "ValidationError" ELSE "ok"

\* PointValidator.validate_points: the outcome of the call
validate_points(pts, w, h) ==
    IF Len(pts) # 4 THEN "ValidationError"
    ELSE IF is_self_intersecting(pts) THEN "ValidationError"
         ELSE "ok"

\* PointValidator.is_convex_quadrilateral
is_convex_quadrilateral(pts) ==
    IF Len(pts) # 4 THEN FALSE
    ELSE LET cross_product_sign(o, a, b) ==
                 (a[1] - o[1]) * (b[2] - o[2]) - (a[2] - o[2]) * (b[1] - o[1])
             cp(i) == cross_product_sign(pts[i], pts[(i % 4) + 1], pts[((i + 1) % 4) + 1])
             nz == {i \in 1..4 : cp(i) # 0}
         IN IF nz = {} THEN FALSE
            ELSE (\A i \in nz : cp(i) > 0) \/ (\A i \in nz : cp(i) < 0)

(***************************************************************************)
(* src/corner_detector.py                                                  *)
(***************************************************************************)
CardTypes == {"100x50", "120x60", "50x50"}

\* int(x): truncation toward zero of the quotient num / den (den > 0)
TruncDiv(num, den) == IF num >= 0 THEN num \div den ELSE -((-num) \div den)

\* CornerDetector._get_default_points
get_default_points(w, h, card_type) ==
    LET base_pts ==
            IF card_type = "100x50"
            THEN << <<256, 389>>, <<950, 658>>, <<800, 1092>>, <<-35, 572>> >>
            ELSE IF card_type = "120x60"
            THEN << <<191, 383>>, <<950, 673>>, <<791, 1109>>, <<-87, 565>> >>
            ELSE << <<408, 404>>, <<900, 509>>, <<642, 1038>>, <<-9, 654>> >>
    IN [i \in 1..4 |-> <<TruncDiv(base_pts[i][1] * w, 1500),
                         TruncDiv(base_pts[i][2] * h, 2000)>>]

(***************************************************************************)
(* Inputs of the validator specification                                   *)
(***************************************************************************)
XCoords == -1..CoordMax
YCoords == 0..CoordMax
Grid == XCoords \X YCoords

\* the rectangle and the bowtie of the validator's documented examples
ExampleQuads == { << <<0, 0>>, <<10, 0>>, <<10, 10>>, <<0, 10>> >>,
                  << <<0, 0>>, <<0, 10>>, <<10, 0>>, <<10, 10>> >> }

\* 4-point lists over the grid
Quads == [1..4 -> Grid] \cup ExampleQuads

\* lists whose length is not 4
OddPoint == {<<0, 0>>, <<1, 0>>, <<0, 1>>}
OddLists == UNION {[1..n -> OddPoint] : n \in {0, 1, 2, 3, 5}}

\* (image_width, image_height) pairs: tiny images the grid reaches beyond,
\* and the 1500x2000 base image of the default points with two rescalings
ImageDims == {<<1, 1>>, <<3, 2>>, <<1500, 2000>>, <<750, 4000>>}

ValInit ==
    /\ vpc = "start"
    /\ points = <<>>
    /\ \E d \in ImageDims : image_width = d[1] /\ image_height = d[2]
    /\ vresult = "pending"

ValIdle ==
    /\ vpc = "idle"
    /\ points = <<>>
    /\ image_width = 0
    /\ image_height = 0
    /\ vresult = "pending"

\* The caller supplies a point list (UI-driven)
ChoosePoints ==
    /\ vpc = "start"
    /\ \E ps \in Quads \cup OddLists : points' = ps
    /\ vpc' = "ready"
    /\ UNCHANGED <<image_width, image_height, vresult>>
    /\ UNCHANGED notVal

\* CornerDetector.detect_corners: the card type comes from the template name
\* or the contour analysis; the points are the scaled defaults
DetectCorners ==
    /\ vpc = "start"
    /\ \E ct \in CardTypes : points' = get_default_points(image_width, image_height, ct)
    /\ vpc' = "ready"
    /\ UNCHANGED <<image_width, image_height, vresult>>
    /\ UNCHANGED notVal

\* PointValidator.validate_points(points, image_width, image_height)
ValidatePoints ==
    /\ vpc = "ready"
    /\ vresult' = validate_points(points, image_width, image_height)
    /\ vpc' = "done"
    /\ UNCHANGED <<points, image_width, image_height>>
    /\ UNCHANGED notVal

ValNext == ChoosePoints \/ DetectCorners \/ ValidatePoints

(***************************************************************************)
(* src/perspective_transformer.py: PerspectiveTransformer.__init__         *)
(***************************************************************************)
RectQuad == << <<0, 0>>, <<10, 0>>, <<10, 10>>, <<0, 10>> >>
BleedQuad == << <<-5, 2>>, <<30, 0>>, <<30, 40>>, <<-2, 12>> >>
BowtieQuad == << <<0, 0>>, <<0, 10>>, <<10, 0>>, <<10, 10>> >>
ThreePoints == << <<0, 0>>, <<10, 0>>, <<10, 10>> >>

\* point lists handed to the constructor
PointLists == {RectQuad, BleedQuad, BowtieQuad, ThreePoints}

SeqsUpTo(S, n) == UNION {[1..k -> S] : k \in 0..n}

TemplateFiles ==
    {[status |-> "missing", width |-> 0, height |-> 0],
     [status |-> "unloadable", width |-> 0, height |-> 0],
     [status |-> "ok", width |-> 20, height |-> 20]}

\* point_sets=None
NoPointSets == [given |-> FALSE, sets |-> <<>>]

CtorInit ==
    /\ cpc = "start"
    /\ template \in TemplateFiles
    /\ arg_corner_points \in PointLists
    /\ arg_point_sets \in {NoPointSets}
           \cup {[given |-> TRUE, sets |-> ss] : ss \in SeqsUpTo(PointLists, MaxSets)}
    /\ template_width = 0
    /\ template_height = 0
    /\ corner_points = <<>>
    /\ point_sets = <<>>
    /\ cresult = "pending"

CtorIdle ==
    /\ cpc = "idle"
    /\ template = [status |-> "ok", width |-> 0, height |-> 0]
    /\ arg_corner_points = <<>>
    /\ arg_point_sets = NoPointSets
    /\ template_width = 0
    /\ template_height = 0
    /\ corner_points = <<>>
    /\ point_sets = <<>>
    /\ cresult = "pending"

\* Mutant: only the first point set is validated.
validate_point_sets_first_only(sets, w, h) ==
    validate_points(sets[1], w, h)

\* lines 55-57: validate_points on every point set, in order; the first
\* failure raises
validate_point_sets(sets, w, h) ==
    IF \E k \in 1..Len(sets) : validate_points(sets[k], w, h) # "ok"
    THEN "ValidationError"
    ELSE "ok"

\* lines 37-50: the template must exist and load
CtorLoadTemplate ==
    /\ cpc = "start"
    /\ IF template.status = "missing"
       THEN /\ cresult' = "FileNotFoundError"
            /\ cpc' = "done"
            /\ UNCHANGED <<template_width, template_height>>
       ELSE IF template.status = "unloadable"
       THEN /\ cresult' = "ValueError"
            /\ cpc' = "done"
            /\ UNCHANGED <<template_width, template_height>>
       ELSE /\ template_width' = template.width
            /\ template_height' = template.height
            /\ cpc' = "validate"
            /\ UNCHANGED cresult
    /\ UNCHANGED <<template, arg_corner_points, arg_point_sets, corner_points, point_sets>>
    /\ UNCHANGED notCtor

\* lines 52-67: validate the quadrilaterals and set the fields
CtorValidate ==
    /\ cpc = "validate"
    /\ IF arg_point_sets.given /\ Len(arg_point_sets.sets) > 0
       THEN IF validate_point_sets(arg_point_sets.sets, template_width, template_height) = "ok"
            THEN /\ point_sets' = arg_point_sets.sets
                 /\ corner_points' = arg_point_sets.sets[1]
                 /\ cresult' = "constructed"
            ELSE /\ cresult' = "ValidationError"
                 /\ UNCHANGED <<corner_points, point_sets>>
       ELSE IF validate_points(arg_corner_points, template_width, template_height) = "ok"
            THEN /\ corner_points' = arg_corner_points
                 /\ point_sets' = <<arg_corner_points>>
                 /\ cresult' = "constructed"
            ELSE /\ cresult' = "ValidationError"
                 /\ UNCHANGED <<corner_points, point_sets>>
    /\ cpc' = "done"
    /\ UNCHANGED <<template, arg_corner_points, arg_point_sets, template_width, template_height>>
    /\ UNCHANGED notCtor

CtorNext == CtorLoadTemplate \/ CtorValidate

(***************************************************************************)
(* src/perspective_transformer.py: transform_multiple                      *)
(***************************************************************************)
\* product files
Paths == {"d1/a.png", "d1/b.png", "d2/c.png"}

\* Path.name: the final component
PathName(p) ==
    IF p = "d1/a.png" THEN "a.png" ELSE IF p = "d1/b.png" THEN "b.png" ELSE "c.png"

FileStatus == {"ok", "missing", "corrupt"}

\* transformers a successful construction leaves behind
ValidQuads == {RectQuad, BleedQuad}
ConstructedSets == SeqsUpTo(ValidQuads, MaxSets) \ {<<>>}

\* [p for p in product_paths if p is not None]
non_null(paths) == SelectSeq(paths, LAMBDA p : p # None)

\* Mutant: the cycle runs over product_paths, not over the non-null paths.
product_for_area_cycle_all(paths, valid, idx) ==
    IF idx < Len(paths) /\ paths[idx + 1] # None
    THEN paths[idx + 1]
    ELSE IF Len(valid) > 0
         THEN paths[(idx % Len(paths)) + 1]
         ELSE None

\* Mutant: beyond the list the last non-null path is repeated.
product_for_area_repeat_last(paths, valid, idx) ==
    IF idx < Len(paths) /\ paths[idx + 1] # None
    THEN paths[idx + 1]
    ELSE IF Len(valid) > 0
         THEN valid[Len(valid)]
         ELSE None

\* lines 256-267: the product of point set idx (0-based)
product_for_area(paths, valid, idx) ==
    IF idx < Len(paths) /\ paths[idx + 1] # None
    THEN paths[idx + 1]
    ELSE IF Len(valid) > 0
         THEN valid[(idx % Len(valid)) + 1]
         ELSE None

\* Mutant: the load is not guarded, a missing or corrupt file aborts the call.
process_area_unguarded(path, files) ==
    IF files[path] = "missing"
    THEN [painted |-> FALSE, errs |-> <<>>, raised |-> TRUE]
    ELSE IF files[path] = "corrupt"
    THEN [painted |-> FALSE, errs |-> <<>>, raised |-> TRUE]
    ELSE [painted |-> TRUE, errs |-> <<>>, raised |-> FALSE]

\* lines 273-309: load, warp, blend and composite one product; every
\* exception is caught and recorded as (file name, message)
process_area(path, files) ==
    IF files[path] = "missing"
    THEN [painted |-> FALSE,
          errs |-> << <<PathName(path), <<"FileNotFoundError", path>> >> >>,
          raised |-> FALSE]
    ELSE IF files[path] = "corrupt"
    THEN [painted |-> FALSE,
          errs |-> << <<PathName(path), <<"ValueError", path>> >> >>,
          raised |-> FALSE]
    ELSE [painted |-> TRUE, errs |-> <<>>, raised |-> FALSE]

Template == "template"

TMInit ==
    /\ tpc = "call"
    /\ product_paths \in SeqsUpTo(Paths \cup {None}, MaxPaths)
    /\ fs \in [Paths -> FileStatus]
    /\ valid_paths = <<>>
    /\ area_i = 0
    /\ used = <<>>
    /\ result = <<>>
    /\ errors = <<>>

TMIdle ==
    /\ tpc = "idle"
    /\ product_paths = <<>>
    /\ fs = [p \in Paths |-> "ok"]
    /\ valid_paths = <<>>
    /\ area_i = 0
    /\ used = <<>>
    /\ result = <<>>
    /\ errors = <<>>

\* the transformer transform_multiple is called on
ConstructedInit ==
    /\ cpc = "done"
    /\ template = [status |-> "ok", width |-> 20, height |-> 20]
    /\ point_sets \in ConstructedSets
    /\ arg_point_sets = [given |-> TRUE, sets |-> point_sets]
    /\ arg_corner_points = point_sets[1]
    /\ corner_points = point_sets[1]
    /\ template_width = 20
    /\ template_height = 20
    /\ cresult = "constructed"

\* lines 235-251: empty input returns the template; otherwise prepare the loop
TMCall ==
    /\ tpc = "call"
    /\ result' = [k \in 1..Len(point_sets) |-> Template]
    /\ errors' = <<>>
    /\ used' = <<>>
    /\ area_i' = 0
    /\ IF product_paths = <<>>
       THEN /\ tpc' = "returned"
            /\ UNCHANGED valid_paths
       ELSE /\ valid_paths' = non_null(product_paths)
            /\ tpc' = "loop"
    /\ UNCHANGED <<product_paths, fs>>
    /\ UNCHANGED notTm

\* lines 254-309: one iteration of the loop over self._point_sets
TMArea ==
    /\ tpc = "loop"
    /\ area_i < Len(point_sets)
    /\ LET product_path == product_for_area(product_paths, valid_paths, area_i)
       IN /\ used' = Append(used, product_path)
          /\ IF product_path = None
             THEN /\ UNCHANGED <<result, errors>>
                  /\ tpc' = "loop"
             ELSE LET out == process_area(product_path, fs)
                  IN /\ result' = IF out.painted
                                  THEN [result EXCEPT ![area_i + 1] = product_path]
                                  ELSE result
                     /\ errors' = errors \o out.errs
                     /\ tpc' = IF out.raised THEN "raised" ELSE "loop"
    /\ area_i' = area_i + 1
    /\ UNCHANGED <<product_paths, fs, valid_paths>>
    /\ UNCHANGED notTm

\* line 311: return result, errors
TMReturn ==
    /\ tpc = "loop"
    /\ area_i = Len(point_sets)
    /\ tpc' = "returned"
    /\ UNCHANGED <<product_paths, fs, valid_paths, area_i, used, result, errors>>
    /\ UNCHANGED notTm

TMNext == TMCall \/ TMArea \/ TMReturn

(***************************************************************************)
(* src/psd_processor.py: process_with_warped_product                       *)
(***************************************************************************)
\* a top-level layer: visibility, whether its name holds a product keyword,
\* and whether _render_layer returns an image for it
LayerKinds == [visible : BOOLEAN, product_kw : BOOLEAN, renders : BOOLEAN]

\* _find_product_layer: the first layer whose name holds a product keyword
find_product_layer(layers) ==
    IF \E k \in 1..Len(layers) : layers[k].product_kw
    THEN CHOOSE k \in 1..Len(layers) :
             /\ layers[k].product_kw
             /\ \A m \in 1..(k - 1) : ~layers[m].product_kw
    ELSE 0

\* Mutant: the threshold comparison is strict.
determine_render_mode_strict(before, after, failed) ==
    LET total_layers == Len(before) + Len(after) + Len(failed)
        successful_layers == Len(before) + Len(after)
    IN IF total_layers = 0 THEN "composite_fallback"
       ELSE IF successful_layers = 0 THEN "composite_fallback"
       ELSE IF Len(failed) = 0 THEN "layer_by_layer"
       ELSE IF 2 * successful_layers > total_layers THEN "layer_by_layer"
       ELSE "hybrid"

\* PSDProcessor._determine_render_mode; success_ratio >= 0.5 is
\* successful_layers / total_layers >= 1/2
determine_render_mode(before, after, failed) ==
    LET total_layers == Len(before) + Len(after) + Len(failed)
        successful_layers == Len(before) + Len(after)
    IN IF total_layers = 0 THEN "composite_fallback"
       ELSE IF successful_layers = 0 THEN "composite_fallback"
       ELSE IF Len(failed) = 0 THEN "layer_by_layer"
       ELSE IF 2 * successful_layers >= total_layers THEN "layer_by_layer"
       ELSE "hybrid"

ModeInit ==
    /\ ppc = "collect"
    /\ psd \in SeqsUpTo(LayerKinds, MaxLayers)
    /\ product_layer = find_product_layer(psd)
    /\ layer_i = 0
    /\ product_found = FALSE
    /\ before_product = <<>>
    /\ after_product = <<>>
    /\ failed_layers = <<>>
    /\ render_mode = ""
    /\ handler = ""

ModeIdle ==
    /\ ppc = "idle"
    /\ psd = <<>>
    /\ product_layer = 0
    /\ layer_i = 0
    /\ product_found = FALSE
    /\ before_product = <<>>
    /\ after_product = <<>>
    /\ failed_layers = <<>>
    /\ render_mode = ""
    /\ handler = ""

\* _collect_layer_render_results, lines 146-185: one iteration of the loop
\* (the photo tag of the layer is modelled by is_photo_layer)
CollectLayer ==
    /\ ppc = "collect"
    /\ layer_i < Len(psd)
    /\ LET k == layer_i + 1
           layer == psd[k]
       IN IF ~layer.visible
          THEN UNCHANGED <<product_found, before_product, after_product, failed_layers>>
          ELSE IF k = product_layer
          THEN /\ product_found' = TRUE
               /\ UNCHANGED <<before_product, after_product, failed_layers>>
          ELSE IF ~layer.renders
          THEN /\ failed_layers' = Append(failed_layers, k)
               /\ UNCHANGED <<product_found, before_product, after_product>>
          ELSE IF ~product_found
          THEN /\ before_product' = Append(before_product, k)
               /\ UNCHANGED <<product_found, after_product, failed_layers>>
          ELSE /\ after_product' = Append(after_product, k)
               /\ UNCHANGED <<product_found, before_product, failed_layers>>
    /\ layer_i' = layer_i + 1
    /\ UNCHANGED <<ppc, psd, product_layer, render_mode, handler>>
    /\ UNCHANGED notMode

\* line 284: render_mode = self._determine_render_mode(...)
DetermineMode ==
    /\ ppc = "collect"
    /\ layer_i = Len(psd)
    /\ render_mode' = determine_render_mode(before_product, after_product, failed_layers)
    /\ ppc' = "dispatch"
    /\ UNCHANGED <<psd, product_layer, layer_i, product_found, before_product,
                   after_product, failed_layers, handler>>
    /\ UNCHANGED notMode

\* lines 287-298: dispatch on the mode
Dispatch ==
    /\ ppc = "dispatch"
    /\ handler' = IF render_mode = "composite_fallback"
                  THEN "_process_with_composite_fallback"
                  ELSE IF render_mode = "hybrid"
                  THEN "_process_with_hybrid_fallback"
                  ELSE "_process_layer_by_layer"
    /\ ppc' = "done"
    /\ UNCHANGED <<psd, product_layer, layer_i, product_found, before_product,
                   after_product, failed_layers, render_mode>>
    /\ UNCHANGED notMode

ModeNext == CollectLayer \/ DetermineMode \/ Dispatch

(***************************************************************************)
(* src/psd_processor.py: _render_layer, _try_render_methods,               *)
(* _is_valid_image, _place_on_canvas                                       *)
(***************************************************************************)
ALPHA_VISIBILITY_THRESHOLD == 20

\* what a render method does: raises, returns None, or returns an image
\* described by its mode, its size and the maximum of its alpha channel
Raises == [kind |-> "raise", mode |-> "", width |-> 0, height |-> 0, max_alpha |-> 0]
ReturnsNone == [kind |-> "none", mode |-> "", width |-> 0, height |-> 0, max_alpha |-> 0]

NoImage == ReturnsNone

ImageSizes == {<<2, 2>>, <<0, 2>>, <<2, 0>>}

\* an image without pixels has no alpha above 0
Images ==
    {[kind |-> "image", mode |-> "RGBA", width |-> sz[1], height |-> sz[2],
      max_alpha |-> IF sz[1] = 0 \/ sz[2] = 0 THEN 0 ELSE a] :
         sz \in ImageSizes, a \in {ALPHA_VISIBILITY_THRESHOLD - 1, ALPHA_VISIBILITY_THRESHOLD}}
    \cup
    {[kind |-> "image", mode |-> "RGB", width |-> sz[1], height |-> sz[2],
      max_alpha |-> IF sz[1] = 0 \/ sz[2] = 0 THEN 0 ELSE 255] : sz \in ImageSizes}

MethodOutcomes == {Raises, ReturnsNone} \cup Images

\* canvas <<width, height>> of the leaf specification
LeafCanvas == <<2, 2>>

Leaves ==
    [composite : MethodOutcomes, topil : MethodOutcomes, pixel_data : MethodOutcomes,
     has_topil : BOOLEAN, left : {-2, -1, 0, 2}, top : {0, 2},
     post_raises : BOOLEAN]

\* Mutant: the alpha channel is not inspected.
is_valid_image_no_alpha(im) ==
    IF im.kind # "image" THEN FALSE
    ELSE IF im.width = 0 \/ im.height = 0 THEN FALSE
    ELSE TRUE

\* PSDProcessor._is_valid_image
is_valid_image(im) ==
    IF im.kind # "image" THEN FALSE
    ELSE IF im.width = 0 \/ im.height = 0 THEN FALSE
    ELSE IF im.mode = "RGBA" /\ im.max_alpha < ALPHA_VISIBILITY_THRESHOLD THEN FALSE
    ELSE TRUE

\* one try block of _try_render_methods: the method's image when the method
\* returns and the image is valid
try_method(outcome) ==
    IF outcome.kind = "image" /\ is_valid_image(outcome) THEN outcome ELSE NoImage

Max2(a, b) == IF a >= b THEN a ELSE b
Min2(a, b) == IF a <= b THEN a ELSE b

FailedRender == [ok |-> FALSE, x |-> 0, y |-> 0, width |-> 0, height |-> 0]

\* PSDProcessor._place_on_canvas: the pasted rectangle, or None when the
\* layer is completely outside the canvas
place_on_canvas(im, left, top, width, height) ==
    IF left < 0 \/ top < 0 \/ left + im.width > width \/ top + im.height > height
    THEN LET crop_l == Max2(0, -left)
             crop_t == Max2(0, -top)
             crop_r == Min2(im.width, width - left)
             crop_b == Min2(im.height, height - top)
         IN IF crop_r > crop_l /\ crop_b > crop_t
            THEN [ok |-> TRUE, x |-> Max2(0, left), y |-> Max2(0, top),
                  width |-> crop_r - crop_l, height |-> crop_b - crop_t]
            ELSE FailedRender
    ELSE [ok |-> TRUE, x |-> left, y |-> top, width |-> im.width, height |-> im.height]

LeafInit ==
    /\ lpc = "composite"
    /\ leaf \in Leaves
    /\ attempted = <<>>
    /\ img = NoImage
    /\ method_used = "none"
    /\ lresult = FailedRender

LeafIdle ==
    /\ lpc = "idle"
    /\ leaf = [composite |-> Raises, topil |-> Raises, pixel_data |-> Raises,
               has_topil |-> FALSE, left |-> 0, top |-> 0, post_raises |-> FALSE]
    /\ attempted = <<>>
    /\ img = NoImage
    /\ method_used = "none"
    /\ lresult = FailedRender

\* lines 713-719: layer.composite()
TryComposite ==
    /\ lpc = "composite"
    /\ attempted' = Append(attempted, "composite")
    /\ LET r == try_method(leaf.composite)
       IN IF r # NoImage
          THEN img' = r /\ method_used' = "composite" /\ lpc' = "place"
          ELSE UNCHANGED <<img, method_used>> /\ lpc' = "topil"
    /\ UNCHANGED <<leaf, lresult>>
    /\ UNCHANGED notLeaf

\* lines 721-728: layer.topil(), when the layer has the method
TryTopil ==
    /\ lpc = "topil"
    /\ IF leaf.has_topil
       THEN /\ attempted' = Append(attempted, "topil")
            /\ LET r == try_method(leaf.topil)
               IN IF r # NoImage
                  THEN img' = r /\ method_used' = "topil" /\ lpc' = "place"
                  ELSE UNCHANGED <<img, method_used>> /\ lpc' = "pixel_data"
       ELSE /\ lpc' = "pixel_data"
            /\ UNCHANGED <<attempted, img, method_used>>
    /\ UNCHANGED <<leaf, lresult>>
    /\ UNCHANGED notLeaf

\* lines 730-738 and 685-687: _extract_pixel_data; when it fails too,
\* _try_render_methods returns (None, 'none') and _render_layer returns None
TryPixelData ==
    /\ lpc = "pixel_data"
    /\ attempted' = Append(attempted, "pixel_data")
    /\ LET r == try_method(leaf.pixel_data)
       IN IF r # NoImage
          THEN img' = r /\ method_used' = "pixel_data" /\ lpc' = "place"
          ELSE UNCHANGED <<img, method_used>> /\ lpc' = "done"
    /\ UNCHANGED <<leaf, lresult>>
    /\ UNCHANGED notLeaf

\* lines 691-699: convert to RGBA and place on the canvas; an exception in
\* either makes _render_layer return None
PlaceOnCanvas ==
    /\ lpc = "place"
    /\ lresult' = IF leaf.post_raises
                  THEN FailedRender
                  ELSE place_on_canvas(img, leaf.left, leaf.top, LeafCanvas[1], LeafCanvas[2])
    /\ lpc' = "done"
    /\ UNCHANGED <<leaf, attempted, img, method_used>>
    /\ UNCHANGED notLeaf

LeafNext == TryComposite \/ TryTopil \/ TryPixelData \/ PlaceOnCanvas

(***************************************************************************)
(* src/psd_processor.py: _render_group_layer, _apply_clipping_mask         *)
(***************************************************************************)
\* an image is modelled by its alpha channel over two pixels
AlphaLevels == {0, 128, 255}
AlphaChannels == [1..2 -> AlphaLevels]

\* _render_layer(sublayer) returned None
NoRender == <<>>

\* an invisible sublayer is never rendered
SubLayers ==
    {[visible |-> FALSE, clipping |-> FALSE, render |-> NoRender]}
    \cup [visible : {TRUE}, clipping : BOOLEAN, render : AlphaChannels \cup {NoRender}]

\* (x * 255).astype(np.uint8) of x = num / 255
to_uint8(num) == (num * 255) \div 255

\* Mutant: the alphas are multiplied instead of intersected.
apply_clipping_mask_multiply(layer_alpha, base_alpha) ==
    [px \in 1..2 |-> (layer_alpha[px] * base_alpha[px]) \div 255]

\* PSDProcessor._apply_clipping_mask: new_alpha = min(layer_alpha, base_alpha)
\* on the alphas divided by 255.0, scaled back and truncated
apply_clipping_mask(layer_alpha, base_alpha) ==
    [px \in 1..2 |-> to_uint8(Min2(layer_alpha[px], base_alpha[px]))]

GroupInit ==
    /\ gpc = "start"
    /\ group \in SeqsUpTo(SubLayers, MaxSub)
    /\ sublayers = <<>>
    /\ sub_i = 0
    /\ clipping_base = NoRender
    /\ composited = <<>>
    /\ rendered_count = 0
    /\ gresult = "pending"

GroupIdle ==
    /\ gpc = "idle"
    /\ group = <<>>
    /\ sublayers = <<>>
    /\ sub_i = 0
    /\ clipping_base = NoRender
    /\ composited = <<>>
    /\ rendered_count = 0
    /\ gresult = "pending"

\* lines 871-881: keep the visible sublayers; none gives None
GroupStart ==
    /\ gpc = "start"
    /\ sublayers' = SelectSeq(group, LAMBDA sl : sl.visible)
    /\ IF sublayers' = <<>>
       THEN gresult' = "None" /\ gpc' = "done"
       ELSE gresult' = gresult /\ gpc' = "loop"
    /\ UNCHANGED <<group, sub_i, clipping_base, composited, rendered_count>>
    /\ UNCHANGED notGroup

\* lines 883-907: one iteration of the loop over the visible sublayers
GroupSublayer ==
    /\ gpc = "loop"
    /\ sub_i < Len(sublayers)
    /\ LET sublayer == sublayers[sub_i + 1]
           sub_img == sublayer.render
       IN IF sub_img = NoRender
          THEN /\ clipping_base' = NoRender
               /\ composited' = Append(composited, NoRender)
               /\ UNCHANGED rendered_count
          ELSE /\ IF sublayer.clipping /\ clipping_base # NoRender
                  THEN /\ composited' = Append(composited,
                                               apply_clipping_mask(sub_img, clipping_base))
                       /\ UNCHANGED clipping_base
                  ELSE /\ clipping_base' = sub_img
                       /\ composited' = Append(composited, sub_img)
               /\ rendered_count' = rendered_count + 1
    /\ sub_i' = sub_i + 1
    /\ UNCHANGED <<gpc, group, sublayers, gresult>>
    /\ UNCHANGED notGroup

\* lines 909-914: None when nothing rendered, else the group image
GroupFinish ==
    /\ gpc = "loop"
    /\ sub_i = Len(sublayers)
    /\ gresult' = IF rendered_count = 0 THEN "None" ELSE "image"
    /\ gpc' = "done"
    /\ UNCHANGED <<group, sublayers, sub_i, clipping_base, composited, rendered_count>>
    /\ UNCHANGED notGroup

GroupNext == GroupStart \/ GroupSublayer \/ GroupFinish

(***************************************************************************)
(* src/psd_processor.py: _is_photo_layer, _is_photo_layer_by_name,         *)
(* _get_layer_coverage; src/skin_detector.py: get_skin_percentage,         *)
(* is_photo_layer                                                          *)
(***************************************************************************)
\* Names are sequences of characters; a Cyrillic letter is written by its
\* code point: "U0444" is the letter ef.
\* PSDProcessor.PHOTO_KEYWORDS
PHOTO_KEYWORDS ==
    << <<"U0444", "U043E", "U0442", "U043E">>,
       <<"p", "h", "o", "t", "o">>,
       <<"U043F", "U043E", "U0440", "U0442", "U0440", "U0435", "U0442">>,
       <<"U043B", "U0438", "U0446", "U043E">>,
       <<"f", "a", "c", "e">>,
       <<"a", "v", "a", "t", "a", "r">>,
       <<"p", "e", "r", "s", "o", "n">>,
       <<"U0447", "U0435", "U043B", "U043E", "U0432", "U0435", "U043A">> >>

\* str.lower() on the characters the layer names use
LowerChar(c) ==
    CASE c = "P" -> "p"
      [] c = "H" -> "h"
      [] c = "O" -> "o"
      [] c = "T" -> "t"
      [] c = "F" -> "f"
      [] c = "A" -> "a"
      [] c = "C" -> "c"
      [] c = "E" -> "e"
      [] c = "B" -> "b"
      [] c = "G" -> "g"
      [] c = "U0424" -> "U0444"
      [] c = "U041E" -> "U043E"
      [] c = "U0422" -> "U0442"
      [] OTHER -> c

lower(name) == [k \in 1..Len(name) |-> LowerChar(name[k])]

\* kw in name_lower
Contains(name, kw) ==
    \E st \in 1..(Len(name) - Len(kw) + 1) : SubSeq(name, st, st + Len(kw) - 1) = kw

\* PSDProcessor._is_photo_layer_by_name
is_photo_layer_by_name(name) ==
    IF name = <<>> THEN FALSE
    ELSE LET name_lower == lower(name)
         IN \E k \in 1..Len(PHOTO_KEYWORDS) : Contains(name_lower, PHOTO_KEYWORDS[k])

\* PSDProcessor.SKIN_THRESHOLD = 0.035, as the fraction 35 / 1000
SKIN_THRESHOLD == [num |-> 35, den |-> 1000]

\* a float that is the quotient of two integers
Zero == [num |-> 0, den |-> 1]
GreaterThan(r, q) == r.num * q.den > q.num * r.den
AtLeast(r, q) == r.num * q.den >= q.num * r.den

\* PSDProcessor._get_layer_coverage
get_layer_coverage(layer, canvas_width, canvas_height) ==
    LET layer_width == layer.right - layer.left
        layer_height == layer.bottom - layer.top
    IN IF layer_width <= 0 \/ layer_height <= 0 THEN Zero
       ELSE LET layer_area == layer_width * layer_height
                canvas_area == canvas_width * canvas_height
            IN IF canvas_area > 0 THEN [num |-> layer_area, den |-> canvas_area] ELSE Zero

\* SkinDetector.get_skin_percentage of an RGBA image: the pixels of the skin
\* mask among the visible pixels (alpha > 127)
get_skin_percentage(image) ==
    IF image.visible_pixels = 0 THEN Zero
    ELSE [num |-> image.skin_pixels, den |-> image.visible_pixels]

\* SkinDetector.is_photo_layer
skin_is_photo_layer(image, threshold) ==
    AtLeast(get_skin_percentage(image), threshold)

\* Mutant: the coverage rule is applied before the name check.
is_photo_layer_coverage_first(layer, image, canvas_width, canvas_height) ==
    IF GreaterThan(get_layer_coverage(layer, canvas_width, canvas_height),
                   [num |-> 8, den |-> 10])
    THEN FALSE
    ELSE IF is_photo_layer_by_name(layer.name) THEN TRUE
    ELSE skin_is_photo_layer(image, SKIN_THRESHOLD)

\* PSDProcessor._is_photo_layer for a rendered layer (layer_image is the
\* canvas-sized render) on a canvas of positive size
is_photo_layer(layer, image, canvas_width, canvas_height) ==
    IF is_photo_layer_by_name(layer.name) THEN TRUE
    ELSE IF canvas_width # 0 /\ canvas_height # 0
            /\ GreaterThan(get_layer_coverage(layer, canvas_width, canvas_height),
                           [num |-> 8, den |-> 10])
         THEN FALSE
         ELSE skin_is_photo_layer(image, SKIN_THRESHOLD)

\* canvas <<width, height>> of the photo specification: 200 pixels
PhotoCanvas == <<20, 10>>

LayerNames ==
    { <<>>,
      <<"b", "g">>,
      <<"P", "h", "o", "t", "o", " ", "1">>,
      <<"F", "A", "C", "E">>,
      <<"s", "u", "r", "f", "a", "c", "e">>,
      <<"U0424", "U043E", "U0442", "U043E">>,
      <<"p", "h", "o", "n", "e">> }

PhotoLayers ==
    [name : LayerNames, left : {-2, 0}, top : {0}, right : {8, 16, 17, 20, 22},
     bottom : {0, 10}]

\* renders by their counts: no visible pixel, or every pixel visible with
\* 0%, 3%, 3.5%, 4% or 100% of skin
LayerImages ==
    {[skin_pixels |-> 0, visible_pixels |-> 0]}
    \cup [skin_pixels : {0, 6, 7, 8, 200},
          visible_pixels : {PhotoCanvas[1] * PhotoCanvas[2]}]

PhotoInit ==
    /\ phpc = "call"
    /\ photo_layer \in PhotoLayers
    /\ layer_image \in LayerImages
    /\ is_photo = FALSE

PhotoIdle ==
    /\ phpc = "idle"
    /\ photo_layer = [name |-> <<>>, left |-> 0, top |-> 0, right |-> 0, bottom |-> 0]
    /\ layer_image = [skin_pixels |-> 0, visible_pixels |-> 0]
    /\ is_photo = FALSE

\* line 167: is_photo = self._is_photo_layer(layer, layer_arr, width, height)
IsPhotoLayer ==
    /\ phpc = "call"
    /\ is_photo' = is_photo_layer(photo_layer, layer_image, PhotoCanvas[1], PhotoCanvas[2])
    /\ phpc' = "done"
    /\ UNCHANGED <<photo_layer, layer_image>>
    /\ UNCHANGED notPhoto

PhotoNext == IsPhotoLayer

(***************************************************************************)
(* src/psd_processor.py: process_with_warped_product and the three         *)
(* handlers it dispatches to                                               *)
(***************************************************************************)
MaxDoc == 3

\* psd.width, psd.height
DocCanvas == <<4, 4>>

NoColor == <<>>
TargetColors == {NoColor, <<0, 0, 0>>}

NoBounds == <<>>
FullFrame == <<0, 0, DocCanvas[1], DocCanvas[2]>>

\* the warped_product argument: whether some pixel has alpha > 0, and its size
WarpedProducts ==
    {[visible |-> FALSE, size |-> DocCanvas],
     [visible |-> TRUE, size |-> DocCanvas],
     [visible |-> TRUE, size |-> <<2, 2>>]}

NoWarped == [visible |-> FALSE, size |-> <<0, 0>>]

\* left, top, right, bottom recorded on the product layer: a box inside the
\* canvas, the whole canvas, and an empty box
LayerBounds == {<<1, 1, 3, 3>>, FullFrame, <<2, 1, 2, 3>>}

\* what psd.composite() does on the whole document
FlattenOutcomes == {"ok", "raise"}

\* one element of the stack of an image: a black canvas, a run of rendered
\* layers, the warped product in a box, the flattened document, or the
\* flattened document blended with a run of rendered layers
Item(kind, layers, box, recolored) ==
    [kind |-> kind, layers |-> layers, box |-> box, recolored |-> recolored]

\* lines 266-276: warped_pil, resized to the canvas
convert_warped_no_resize(wp, width, height) ==
    IF wp.visible
    THEN [visible |-> TRUE, size |-> wp.size]
    ELSE [visible |-> FALSE, size |-> <<width, height>>]

convert_warped(wp, width, height) ==
    IF wp.visible
    THEN [visible |-> TRUE, size |-> <<width, height>>]
    ELSE [visible |-> FALSE, size |-> <<width, height>>]

\* lines 328-335, 338-345, 569-576, 590-597: the images composited for a list
\* of LayerRenderResult, each recolored when a target color is given and the
\* layer is not a photo
composite_layers_recolor_photos(results, color, tags) ==
    [i \in 1..Len(results) |->
        [layer |-> results[i], recolored |-> color # NoColor]]

composite_layers(results, color, tags) ==
    [i \in 1..Len(results) |->
        [layer |-> results[i],
         recolored |-> (color # NoColor /\ ~tags[results[i]])]]

\* _process_layer_by_layer
process_layer_by_layer(before, after, wp, color, tags) ==
    [outcome |-> "image",
     image |-> <<Item("black", <<>>, FullFrame, FALSE),
                 Item("layers", composite_layers(before, color, tags), FullFrame, FALSE),
                 Item("warped", <<>>, <<0, 0, wp.size[1], wp.size[2]>>, FALSE),
                 Item("layers", composite_layers(after, color, tags), FullFrame, FALSE)>>]

\* _get_product_layer_bounds: None without a product layer or for an empty box
get_product_layer_bounds(pl, bounds) ==
    IF pl = 0 THEN NoBounds
    ELSE IF bounds[3] <= bounds[1] \/ bounds[4] <= bounds[2] THEN NoBounds
    ELSE bounds

\* _place_product_on_composite: the box the warped product is pasted into
place_product_on_composite(wp, bounds, width, height) ==
    IF wp.size = <<width, height>>
    THEN Item("warped", <<>>, <<0, 0, width, height>>, FALSE)
    ELSE Item("warped", <<>>, bounds, FALSE)

\* _process_with_composite_fallback
process_with_composite_fallback_unguarded(flat, wp, color, bounds) ==
    IF flat = "raise"
    THEN [outcome |-> "exception", image |-> <<>>]
    ELSE [outcome |-> "image",
          image |-> <<Item("composite", <<>>, FullFrame, color # NoColor),
                      IF bounds # NoBounds
                      THEN place_product_on_composite(wp, bounds, DocCanvas[1], DocCanvas[2])
                      ELSE Item("warped", <<>>, <<0, 0, wp.size[1], wp.size[2]>>, FALSE)>>]

process_with_composite_fallback(flat, wp, color, bounds) ==
    IF flat = "raise"
    THEN [outcome |-> "image",
          image |-> <<Item("black", <<>>, <<0, 0, wp.size[1], wp.size[2]>>, FALSE),
                      Item("warped", <<>>, <<0, 0, wp.size[1], wp.size[2]>>, FALSE)>>]
    ELSE [outcome |-> "image",
          image |-> <<Item("composite", <<>>, FullFrame, color # NoColor),
                      IF bounds # NoBounds
                      THEN place_product_on_composite(wp, bounds, DocCanvas[1], DocCanvas[2])
                      ELSE Item("warped", <<>>, <<0, 0, wp.size[1], wp.size[2]>>, FALSE)>>]

\* _process_with_hybrid_fallback
process_with_hybrid_fallback(flat, before, after, wp, color, tags) ==
    IF flat = "raise"
    THEN process_layer_by_layer(before, after, wp, color, tags)
    ELSE [outcome |-> "image",
          image |-> <<Item("blend", composite_layers(before, color, tags), FullFrame,
                           color # NoColor),
                      Item("warped", <<>>, <<0, 0, wp.size[1], wp.size[2]>>, FALSE)>>
                    \o [i \in 1..Len(after) |->
                           Item("layers", composite_layers(<<after[i]>>, color, tags),
                                FullFrame, FALSE)]]

\* the layers whose LayerRenderResult carries an image
Renders(layers) == {k \in 1..Len(layers) : layers[k].visible /\ layers[k].renders}

ProcInit ==
    /\ ppc = "start"
    /\ psd \in SeqsUpTo(LayerKinds, MaxDoc)
    /\ product_layer = find_product_layer(psd)
    /\ layer_i = 0
    /\ product_found = FALSE
    /\ before_product = <<>>
    /\ after_product = <<>>
    /\ failed_layers = <<>>
    /\ render_mode = ""
    /\ handler = ""
    /\ target_color \in TargetColors
    /\ warped_product \in WarpedProducts
    /\ layer_is_photo \in {t \in [1..Len(psd) -> BOOLEAN] :
                              \A k \in 1..Len(psd) : t[k] => k \in Renders(psd)}
    /\ warped_pil = NoWarped
    /\ flatten = ""
    /\ product_bounds = NoBounds
    /\ output = <<>>
    /\ returned = "pending"

ProcIdle ==
    /\ target_color = NoColor
    /\ warped_product = NoWarped
    /\ layer_is_photo = <<>>
    /\ warped_pil = NoWarped
    /\ flatten = ""
    /\ product_bounds = NoBounds
    /\ output = <<>>
    /\ returned = "pending"

\* lines 259-276: the document, its product layer, warped_pil
ProcStart ==
    /\ ppc = "start"
    /\ warped_pil' = convert_warped(warped_product, DocCanvas[1], DocCanvas[2])
    /\ ppc' = "collect"
    /\ UNCHANGED <<psd, product_layer, layer_i, product_found, before_product,
                   after_product, failed_layers, render_mode, handler>>
    /\ UNCHANGED <<target_color, warped_product, layer_is_photo, flatten,
                   product_bounds, output, returned>>
    /\ UNCHANGED notModeProc

\* lines 294-298
ProcessLayerByLayer ==
    /\ ppc = "done"
    /\ returned = "pending"
    /\ handler = "_process_layer_by_layer"
    /\ LET r == process_layer_by_layer(before_product, after_product, warped_pil,
                                       target_color, layer_is_photo)
       IN /\ output' = r.image
          /\ returned' = r.outcome
    /\ UNCHANGED <<target_color, warped_product, layer_is_photo, warped_pil, flatten,
                   product_bounds>>
    /\ UNCHANGED notProc

\* lines 287-288
ProcessWithCompositeFallback ==
    /\ ppc = "done"
    /\ returned = "pending"
    /\ handler = "_process_with_composite_fallback"
    /\ \E flat \in FlattenOutcomes, bounds \in LayerBounds :
          LET b == IF flat = "ok" THEN get_product_layer_bounds(product_layer, bounds)
                   ELSE NoBounds
              r == process_with_composite_fallback(flat, warped_pil, target_color, b)
          IN /\ flatten' = flat
             /\ product_bounds' = b
             /\ output' = r.image
             /\ returned' = r.outcome
    /\ UNCHANGED <<target_color, warped_product, layer_is_photo, warped_pil>>
    /\ UNCHANGED notProc

\* lines 289-293
ProcessWithHybridFallback ==
    /\ ppc = "done"
    /\ returned = "pending"
    /\ handler = "_process_with_hybrid_fallback"
    /\ \E flat \in FlattenOutcomes :
          LET r == process_with_hybrid_fallback(flat, before_product, after_product,
                                                warped_pil, target_color, layer_is_photo)
          IN /\ flatten' = flat
             /\ output' = r.image
             /\ returned' = r.outcome
    /\ UNCHANGED <<target_color, warped_product, layer_is_photo, warped_pil,
                   product_bounds>>
    /\ UNCHANGED notProc

ProcNext ==
    \/ ProcStart
    \/ CollectLayer
    \/ DetermineMode
    \/ Dispatch
    \/ ProcessLayerByLayer
    \/ ProcessWithCompositeFallback
    \/ ProcessWithHybridFallback

(***************************************************************************)
(* The bounded caches: src/file_utils.py (_image_cache),                   *)
(* backend/app/services/image_service.py (_transformer_cache,              *)
(* _preview_cache, _color_cache), src/psd_processor.py (_psd_cache)        *)
(***************************************************************************)
MaxKeys == 52

CACHE_MAX_SIZE == 50
TRANSFORMER_CACHE_MAX == 15
PREVIEW_CACHE_MAX == 30
COLOR_CACHE_MAX == 50
PSD_CACHE_MAX_SIZE == 10

\* how many of the oldest keys each insertion into a full cache removes
IMAGE_EVICT == CACHE_MAX_SIZE \div 2
TRANSFORMER_EVICT == 5
PREVIEW_EVICT == 10
COLOR_EVICT == 10
PSD_EVICT == 1

CacheNames == {"image", "transformer", "preview", "color", "psd"}

EmptyCaches == [c \in CacheNames |-> <<>>]

Has(cache, key) == \E i \in 1..Len(cache) : cache[i] = key

\* list(cache.keys())[:n]
FirstKeys(cache, n) == SubSeq(cache, 1, Min2(n, Len(cache)))

\* the cache after `for k in keys_to_remove: del cache[k]`
DelKeys(cache, keys) == SelectSeq(cache, LAMBDA k : ~Has(keys, k))

\* cache[key] = value: a new key goes last, a present key keeps its place
SetKey(cache, key) == IF Has(cache, key) THEN cache ELSE Append(cache, key)

OpResult(cache, hit, evicted, inserted, raised) ==
    [cache |-> cache, hit |-> hit, evicted |-> evicted, inserted |-> inserted,
     raised |-> raised]

\* load_image_cv2: file_utils.py lines 77-184
load_image_cv2_no_evict(cache, key, use_cache, load_ok) ==
    IF use_cache /\ Has(cache, key) THEN OpResult(cache, TRUE, <<>>, FALSE, FALSE)
    ELSE IF ~load_ok THEN OpResult(cache, FALSE, <<>>, FALSE, TRUE)
    ELSE IF ~use_cache THEN OpResult(cache, FALSE, <<>>, FALSE, FALSE)
    ELSE OpResult(SetKey(cache, key), FALSE, <<>>, TRUE, FALSE)

load_image_cv2(cache, key, use_cache, load_ok) ==
    IF use_cache /\ Has(cache, key) THEN OpResult(cache, TRUE, <<>>, FALSE, FALSE)
    ELSE IF ~load_ok THEN OpResult(cache, FALSE, <<>>, FALSE, TRUE)
    ELSE IF ~use_cache THEN OpResult(cache, FALSE, <<>>, FALSE, FALSE)
    ELSE LET keys_to_remove == IF Len(cache) >= CACHE_MAX_SIZE
                               THEN FirstKeys(cache, IMAGE_EVICT) ELSE <<>>
         IN OpResult(SetKey(DelKeys(cache, keys_to_remove), key), FALSE,
                     keys_to_remove, TRUE, FALSE)

\* get_transformer_cached: image_service.py lines 41-63; the constructor runs
\* after the eviction and may raise
get_transformer_cached(cache, key, ctor_ok) ==
    IF Has(cache, key) THEN OpResult(cache, TRUE, <<>>, FALSE, FALSE)
    ELSE LET keys_to_remove == IF Len(cache) >= TRANSFORMER_CACHE_MAX
                               THEN FirstKeys(cache, TRANSFORMER_EVICT) ELSE <<>>
             kept == DelKeys(cache, keys_to_remove)
         IN IF ctor_ok
            THEN OpResult(SetKey(kept, key), FALSE, keys_to_remove, TRUE, FALSE)
            ELSE OpResult(kept, FALSE, keys_to_remove, FALSE, TRUE)

\* PSDProcessor._get_cached_psd: psd_processor.py lines 98-108
get_cached_psd_lru(cache, key, open_ok) ==
    IF Has(cache, key)
    THEN OpResult(Append(DelKeys(cache, <<key>>), key), TRUE, <<>>, FALSE, FALSE)
    ELSE LET keys_to_remove == IF Len(cache) >= PSD_CACHE_MAX_SIZE
                               THEN FirstKeys(cache, PSD_EVICT) ELSE <<>>
             kept == DelKeys(cache, keys_to_remove)
         IN IF open_ok
            THEN OpResult(SetKey(kept, key), FALSE, keys_to_remove, TRUE, FALSE)
            ELSE OpResult(kept, FALSE, keys_to_remove, FALSE, TRUE)

get_cached_psd(cache, key, open_ok) ==
    IF Has(cache, key) THEN OpResult(cache, TRUE, <<>>, FALSE, FALSE)
    ELSE LET keys_to_remove == IF Len(cache) >= PSD_CACHE_MAX_SIZE
                               THEN FirstKeys(cache, PSD_EVICT) ELSE <<>>
             kept == DelKeys(cache, keys_to_remove)
         IN IF open_ok
            THEN OpResult(SetKey(kept, key), FALSE, keys_to_remove, TRUE, FALSE)
            ELSE OpResult(kept, FALSE, keys_to_remove, FALSE, TRUE)

\* ImageService._get_cached_color: image_service.py lines 90-104
get_cached_color(cache, key, load_ok) ==
    IF Has(cache, key) THEN OpResult(cache, TRUE, <<>>, FALSE, FALSE)
    ELSE LET keys_to_remove == IF Len(cache) >= COLOR_CACHE_MAX
                               THEN FirstKeys(cache, COLOR_EVICT) ELSE <<>>
             kept == DelKeys(cache, keys_to_remove)
         IN IF load_ok
            THEN OpResult(SetKey(kept, key), FALSE, keys_to_remove, TRUE, FALSE)
            ELSE OpResult(kept, FALSE, keys_to_remove, FALSE, TRUE)

\* ImageService.generate_preview: image_service.py lines 216-219 and 319-326;
\* the preview is rendered between the lookup and the insertion and may raise
generate_preview(cache, key, render_ok) ==
    IF Has(cache, key) THEN OpResult(cache, TRUE, <<>>, FALSE, FALSE)
    ELSE IF ~render_ok THEN OpResult(cache, FALSE, <<>>, FALSE, TRUE)
    ELSE LET keys_to_remove == IF Len(cache) >= PREVIEW_CACHE_MAX
                               THEN FirstKeys(cache, PREVIEW_EVICT) ELSE <<>>
         IN OpResult(SetKey(DelKeys(cache, keys_to_remove), key), FALSE,
                     keys_to_remove, TRUE, FALSE)

\* clear_image_cache: file_utils.py lines 71-74
clear_image_cache(cs) == [cs EXCEPT !["image"] = <<>>]

\* clear_all_caches: image_service.py lines 30-38
clear_all_caches(cs) ==
    clear_image_cache([cs EXCEPT !["transformer"] = <<>>, !["preview"] = <<>>,
                                 !["color"] = <<>>])

\* PSDProcessor.clear_cache: psd_processor.py lines 110-114, `pass`
psd_clear_cache(cs) == cs

NoOp == [op |-> "", key |-> 0, hit |-> FALSE, evicted |-> <<>>, inserted |-> FALSE,
         raised |-> FALSE]

Op(name, key, r) ==
    [op |-> name, key |-> key, hit |-> r.hit, evicted |-> r.evicted,
     inserted |-> r.inserted, raised |-> r.raised]

\* the key the last operation returned from the cache
ReadKey(op) == IF op.hit THEN op.key ELSE 0

\* the keys a caller asks for: the oldest and the newest key of the cache, and
\* the first key that was never cached
Requests(cache) ==
    (IF cache = <<>> THEN {} ELSE {cache[1], cache[Len(cache)]})
    \cup (IF next_key <= MaxKeys THEN {next_key} ELSE {})

CacheInit ==
    /\ cache_name \in CacheNames
    /\ caches = EmptyCaches
    /\ next_key = 1
    /\ last_op = NoOp
    /\ just_read = 0

CacheIdle ==
    /\ cache_name = ""
    /\ caches = EmptyCaches
    /\ next_key = 1
    /\ last_op = NoOp
    /\ just_read = 0

\* one lookup of the exercised cache
Lookup(name, op, r, key) ==
    /\ caches' = [caches EXCEPT ![name] = r.cache]
    /\ next_key' = IF r.inserted THEN next_key + 1 ELSE next_key
    /\ last_op' = Op(op, key, r)
    /\ just_read' = ReadKey(last_op)
    /\ UNCHANGED cache_name
    /\ UNCHANGED notCache

LoadImageCv2 ==
    /\ cache_name = "image"
    /\ \E key \in Requests(caches["image"]), use_cache \in BOOLEAN, load_ok \in BOOLEAN :
          Lookup("image", "load_image_cv2",
                 load_image_cv2(caches["image"], key, use_cache, load_ok), key)

GetTransformerCached ==
    /\ cache_name = "transformer"
    /\ \E key \in Requests(caches["transformer"]), ctor_ok \in BOOLEAN :
          Lookup("transformer", "get_transformer_cached",
                 get_transformer_cached(caches["transformer"], key, ctor_ok), key)

GetCachedPsd ==
    /\ cache_name = "psd"
    /\ \E key \in Requests(caches["psd"]), open_ok \in BOOLEAN :
          Lookup("psd", "_get_cached_psd",
                 get_cached_psd(caches["psd"], key, open_ok), key)

GetCachedColor ==
    /\ cache_name = "color"
    /\ \E key \in Requests(caches["color"]), load_ok \in BOOLEAN :
          Lookup("color", "_get_cached_color",
                 get_cached_color(caches["color"], key, load_ok), key)

GeneratePreview ==
    /\ cache_name = "preview"
    /\ \E key \in Requests(caches["preview"]), render_ok \in BOOLEAN :
          Lookup("preview", "generate_preview",
                 generate_preview(caches["preview"], key, render_ok), key)

\* a clear operation
Clear(op, cs) ==
    /\ cache_name # ""
    /\ caches' = cs
    /\ last_op' = [NoOp EXCEPT !.op = op]
    /\ just_read' = ReadKey(last_op)
    /\ UNCHANGED <<cache_name, next_key>>
    /\ UNCHANGED notCache

ClearImageCache == Clear("clear_image_cache", clear_image_cache(caches))

ClearAllCaches == Clear("clear_all_caches", clear_all_caches(caches))

PsdClearCache == Clear("PSDProcessor.clear_cache", psd_clear_cache(caches))

CacheNext ==
    \/ LoadImageCv2
    \/ GetTransformerCached
    \/ GetCachedPsd
    \/ GetCachedColor
    \/ GeneratePreview
    \/ ClearImageCache
    \/ ClearAllCaches
    \/ PsdClearCache

(***************************************************************************)
(* The shared caches under two threads: the background generation thread   *)
(* (routers/generate.py process_generation) and a preview request          *)
(* (routers/templates.py get_preview); each step is one dict operation     *)
(***************************************************************************)
Threads == {"generation", "preview"}

SharedCaches == {"image", "transformer", "psd"}

Capacity == [image |-> CACHE_MAX_SIZE, transformer |-> TRANSFORMER_CACHE_MAX,
             psd |-> PSD_CACHE_MAX_SIZE]

Evicted == [image |-> IMAGE_EVICT, transformer |-> TRANSFORMER_EVICT, psd |-> PSD_EVICT]

\* a cache filled by one thread: keys 1..n in insertion order
Filled(n) == [i \in 1..n |-> i]

ThrInit ==
    /\ shared_name \in SharedCaches
    /\ \E n \in 0..Capacity[shared_name] :
          /\ shared = Filled(n)
          /\ thread_key \in [Threads -> {1, n + 1, n + 2}]
    /\ thread_pc = [t \in Threads |-> "call"]
    /\ thread_keys_to_remove = [t \in Threads |-> <<>>]
    /\ thread_error = [t \in Threads |-> ""]

ThrIdle ==
    /\ shared_name = ""
    /\ shared = <<>>
    /\ thread_key = [t \in Threads |-> 0]
    /\ thread_pc = [t \in Threads |-> "done"]
    /\ thread_keys_to_remove = [t \in Threads |-> <<>>]
    /\ thread_error = [t \in Threads |-> ""]

Raise(t, exc) ==
    /\ thread_pc' = [thread_pc EXCEPT ![t] = "raised"]
    /\ thread_error' = [thread_error EXCEPT ![t] = exc]

\* `if key in cache` / `if key not in cache`: file_utils.py line 85,
\* image_service.py line 54, psd_processor.py line 102
ThreadCheck(t) ==
    /\ thread_pc[t] = "call"
    /\ thread_pc' = [thread_pc EXCEPT ![t] =
                        IF Has(shared, thread_key[t]) THEN "get" ELSE "len"]
    /\ UNCHANGED <<shared_name, shared, thread_key, thread_keys_to_remove, thread_error>>
    /\ UNCHANGED notThr

\* `cache[key]` read for the caller: file_utils.py line 86, image_service.py
\* line 63, psd_processor.py line 108
ThreadGet(t) ==
    /\ thread_pc[t] = "get"
    /\ IF Has(shared, thread_key[t])
       THEN /\ thread_pc' = [thread_pc EXCEPT ![t] = "done"]
            /\ UNCHANGED thread_error
       ELSE Raise(t, "KeyError")
    /\ UNCHANGED <<shared_name, shared, thread_key, thread_keys_to_remove>>
    /\ UNCHANGED notThr

\* `if len(cache) >= MAX`: file_utils.py line 177, image_service.py line 55,
\* psd_processor.py line 103
ThreadLen(t) ==
    /\ thread_pc[t] = "len"
    /\ thread_pc' = [thread_pc EXCEPT ![t] =
                        IF Len(shared) >= Capacity[shared_name] THEN "keys" ELSE "set"]
    /\ UNCHANGED <<shared_name, shared, thread_key, thread_keys_to_remove, thread_error>>
    /\ UNCHANGED notThr

\* keys_to_remove = list(cache.keys())[:n]: file_utils.py line 179,
\* image_service.py line 57; oldest_key = next(iter(cache)): psd_processor.py
\* line 105
ThreadKeys(t) ==
    /\ thread_pc[t] = "keys"
    /\ IF shared_name = "psd" /\ shared = <<>>
       THEN /\ Raise(t, "StopIteration")
            /\ UNCHANGED thread_keys_to_remove
       ELSE /\ thread_keys_to_remove' = [thread_keys_to_remove EXCEPT ![t] =
                                     FirstKeys(shared, Evicted[shared_name])]
            /\ thread_pc' = [thread_pc EXCEPT ![t] = "del"]
            /\ UNCHANGED thread_error
    /\ UNCHANGED <<shared_name, shared, thread_key>>
    /\ UNCHANGED notThr

\* one `del cache[k]`, or the end of the loop: file_utils.py lines 180-181,
\* image_service.py lines 58-59, psd_processor.py line 106
ThreadDel(t) ==
    /\ thread_pc[t] = "del"
    /\ IF thread_keys_to_remove[t] = <<>>
       THEN /\ thread_pc' = [thread_pc EXCEPT ![t] = "set"]
            /\ UNCHANGED <<shared, thread_keys_to_remove, thread_error>>
       ELSE IF Has(shared, Head(thread_keys_to_remove[t]))
       THEN /\ shared' = DelKeys(shared, <<Head(thread_keys_to_remove[t])>>)
            /\ thread_keys_to_remove' = [thread_keys_to_remove EXCEPT ![t] = Tail(thread_keys_to_remove[t])]
            /\ UNCHANGED <<thread_pc, thread_error>>
       ELSE /\ Raise(t, "KeyError")
            /\ UNCHANGED <<shared, thread_keys_to_remove>>
    /\ UNCHANGED <<shared_name, thread_key>>
    /\ UNCHANGED notThr

\* `cache[key] = value`: file_utils.py line 182 (then `return result`),
\* image_service.py line 60, psd_processor.py line 107 (then `return cache[key]`)
ThreadSet(t) ==
    /\ thread_pc[t] = "set"
    /\ shared' = SetKey(shared, thread_key[t])
    /\ thread_pc' = [thread_pc EXCEPT ![t] = IF shared_name = "image" THEN "done" ELSE "get"]
    /\ UNCHANGED <<shared_name, thread_key, thread_keys_to_remove, thread_error>>
    /\ UNCHANGED notThr

ThrNext ==
    \E t \in Threads :
        \/ ThreadCheck(t)
        \/ ThreadGet(t)
        \/ ThreadLen(t)
        \/ ThreadKeys(t)
        \/ ThreadDel(t)
        \/ ThreadSet(t)

(***************************************************************************)
(* src/psd_processor.py: _recolor, _recolor_with_face_protection           *)
(***************************************************************************)
MaxPixels == 2

\* colors of the input and colors the hue shift produces
PixelColors == {<<200, 30, 30>>, <<128, 128, 128>>}
ShiftedColors == {<<30, 200, 30>>, <<128, 128, 128>>}

PixelAlphas == {0, 20, 21, 255}

\* values of the feathered recolor mask
MaskValues == {0, 128, 255}

\* images by mode: L (1 channel), RGB (3), RGBA (4); without an alpha channel
\* the alpha of the model's pixel is 255
RecolorImages ==
    {im \in [channels : {1, 3, 4},
             pixels : SeqsUpTo([rgb : PixelColors, alpha : PixelAlphas], MaxPixels) \ {<<>>}] :
        im.channels # 4 => \A i \in 1..Len(im.pixels) : im.pixels[i].alpha = 255}

NoRecolorImage == [channels |-> 0, pixels |-> <<>>]

\* lines 1111-1113, 1238-1240: alpha_mask = (alpha > 20), applied to RGBA only
alpha_mask_inclusive(channels, alpha) ==
    IF channels = 4 THEN (IF alpha >= 20 THEN 1 ELSE 0) ELSE 1

alpha_mask(channels, alpha) ==
    IF channels = 4 THEN (IF alpha > 20 THEN 1 ELSE 0) ELSE 1

\* lines 1132-1134, 1255-1257: one channel of rgb_blended, clipped and
\* truncated to uint8; weight is the mask value out of 255
blend_channel(recolored, original, weight) ==
    LET v == (recolored * weight + original * (255 - weight)) \div 255
    IN IF v < 0 THEN 0 ELSE IF v > 255 THEN 255 ELSE v

blend_pixel(px, channels, mask, shifted) ==
    LET weight == mask * alpha_mask(channels, px.alpha)
    IN [rgb |-> [c \in 1..3 |-> blend_channel(shifted[c], px.rgb[c], weight)],
        alpha |-> px.alpha]

\* _recolor, lines 1080-1138: images of fewer than 3 channels are returned
\* as they are; the alpha channel is stacked back unchanged
recolor(image, mask, shifted) ==
    IF image.channels < 3 THEN image
    ELSE [channels |-> image.channels,
          pixels |-> [i \in 1..Len(image.pixels) |->
                         blend_pixel(image.pixels[i], image.channels, mask[i], shifted[i])]]

\* _recolor_with_face_protection, lines 1198-1261: the mask comes from a
\* stronger skin protection, the blend is the same
recolor_with_face_protection(image, mask, shifted) ==
    IF image.channels < 3 THEN image
    ELSE [channels |-> image.channels,
          pixels |-> [i \in 1..Len(image.pixels) |->
                         blend_pixel(image.pixels[i], image.channels, mask[i], shifted[i])]]

RecolorMethods == {"_recolor", "_recolor_with_face_protection"}

RecolorInit ==
    /\ rpc = "call"
    /\ recolor_method \in RecolorMethods
    /\ recolor_image \in RecolorImages
    /\ final_mask = <<>>
    /\ rgb_recolored = <<>>
    /\ recolor_result = NoRecolorImage

RecolorIdle ==
    /\ rpc = "idle"
    /\ recolor_method = ""
    /\ recolor_image = NoRecolorImage
    /\ final_mask = <<>>
    /\ rgb_recolored = <<>>
    /\ recolor_result = NoRecolorImage

\* the call: the masks and the hue shift computed from the image are any
\* values of their range
RecolorCall(method) ==
    /\ rpc = "call"
    /\ recolor_method = method
    /\ \E mask \in [1..Len(recolor_image.pixels) -> MaskValues],
          shifted \in [1..Len(recolor_image.pixels) -> ShiftedColors] :
          /\ final_mask' = mask
          /\ rgb_recolored' = shifted
          /\ recolor_result' = IF method = "_recolor"
                               THEN recolor(recolor_image, mask, shifted)
                               ELSE recolor_with_face_protection(recolor_image, mask, shifted)
    /\ rpc' = "done"
    /\ UNCHANGED <<recolor_method, recolor_image>>
    /\ UNCHANGED notRecolor

Recolor == RecolorCall("_recolor")

RecolorWithFaceProtection == RecolorCall("_recolor_with_face_protection")

RecolorNext == Recolor \/ RecolorWithFaceProtection

(***************************************************************************)
(* src/color_analyzer.py: ColorAnalyzer.get_dominant_color                 *)
(***************************************************************************)
MaxCopies == 10

VALUE_LOW_THRESHOLD == 10
VALUE_HIGH_THRESHOLD == 245
SATURATION_MIN_THRESHOLD == 10
LOW_AVG_SATURATION_THRESHOLD == 15
MIN_RESULT_SATURATION == 20
MIN_PIXELS_FOR_CLUSTERING == 10
BOOST_AVG_SATURATION == 30

NEUTRAL_GRAY == <<128, 128, 128>>

\* the colors an image is made of: mid gray, near white, a saturated red, a
\* near-gray pink, a dull pink, a near black, a dim pink
Palette ==
    <<NEUTRAL_GRAY, <<250, 250, 250>>, <<200, 20, 20>>, <<128, 124, 124>>,
      <<128, 120, 120>>, <<5, 0, 0>>, <<16, 15, 15>>>>

Colors == 1..Len(Palette)

\* a common multiple of the largest channels of the palette, to add
\* saturations as integers
SatScale == 16000

MaxChannel(rgb) == Max2(Max2(rgb[1], rgb[2]), rgb[3])
MinChannel(rgb) == Min2(Min2(rgb[1], rgb[2]), rgb[3])

\* _rgb_to_hsv: S on the 0-255 scale as the fraction num/den, and V on the
\* 0-255 scale (get_dominant_color does not read the hue)
rgb_to_hsv(rgb) ==
    LET maxc == MaxChannel(rgb)
        deltac == maxc - MinChannel(rgb)
    IN [s |-> IF maxc # 0 THEN [num |-> 255 * deltac, den |-> maxc]
              ELSE [num |-> 0, den |-> 1],
        v |-> maxc]

\* S * SatScale, an integer for the colors of the palette
ScaledSaturation(c) ==
    LET s == rgb_to_hsv(Palette[c]).s IN s.num * (SatScale \div s.den)

RECURSIVE SaturationSum(_, _)
SaturationSum(pixels, c) ==
    IF c = 0 THEN 0 ELSE pixels[c] * ScaledSaturation(c) + SaturationSum(pixels, c - 1)

RECURSIVE PixelsUpTo(_, _)
PixelsUpTo(pixels, c) ==
    IF c = 0 THEN 0 ELSE pixels[c] + PixelsUpTo(pixels, c - 1)

\* len(pixels)
PixelCount(pixels) == PixelsUpTo(pixels, Len(Palette))

\* _get_average_saturation(hsv) < threshold: the mean of S, 0.0 for no pixels
average_saturation_below(pixels, threshold) ==
    IF PixelCount(pixels) = 0 THEN 0 < threshold
    ELSE SaturationSum(pixels, Len(Palette))
            < threshold * PixelCount(pixels) * SatScale

\* the valid_mask of _filter_pixels
valid_mask(c) ==
    LET hsv == rgb_to_hsv(Palette[c])
    IN /\ hsv.v >= VALUE_LOW_THRESHOLD
       /\ hsv.v <= VALUE_HIGH_THRESHOLD
       /\ hsv.s.num >= SATURATION_MIN_THRESHOLD * hsv.s.den

filter_pixels(pixels) == [c \in Colors |-> IF valid_mask(c) THEN pixels[c] ELSE 0]

\* _get_color_saturation(result) < MIN_RESULT_SATURATION for a color of the palette
color_saturation_low(c) ==
    LET s == rgb_to_hsv(Palette[c]).s IN s.num < MIN_RESULT_SATURATION * s.den

Unique(pixels) == {c \in Colors : pixels[c] > 0}

\* int(round(num / den))
Round(num, den) == (2 * num + den) \div (2 * den)

\* _boost_saturation: colorsys.rgb_to_hsv, the saturation replaced by
\* target_saturation / 255, colorsys.hsv_to_rgb, each channel rounded to an
\* integer.  The largest channel keeps the value v, the smallest becomes
\* v * (1 - s), the middle one keeps its place between them (the hue); a gray
\* has hue 0 and becomes (v, p, p).
boost_saturation(rgb, target_saturation) ==
    LET maxc == MaxChannel(rgb)
        minc == MinChannel(rgb)
        p == Round(maxc * (255 - target_saturation), 255)
    IN IF maxc = minc THEN <<maxc, p, p>>
       ELSE [ch \in 1..3 |->
                Round(maxc * (255 * (maxc - minc) - target_saturation * (maxc - rgb[ch])),
                      255 * (maxc - minc))]

\* the returned color: NEUTRAL_GRAY, or the color of the pixels of the
\* dominant cluster when they share one, boosted when the code boosts it; the
\* center of a cluster of several colors is left open
Returned(kind, path, colors, boosted) ==
    [kind |-> kind, path |-> path, colors |-> colors, boosted |-> boosted,
     color |-> IF kind = "neutral" THEN NEUTRAL_GRAY
               ELSE IF Cardinality(colors) = 1
               THEN LET rgb == Palette[CHOOSE c \in colors : TRUE]
                    IN IF boosted THEN boost_saturation(rgb, MIN_RESULT_SATURATION + 3)
                       ELSE rgb
               ELSE <<>>]

\* Mutant: the average saturation is taken over the filtered pixels.
get_dominant_color_filter_first(pixels, clusters, cluster, center_low) ==
    LET filtered == filter_pixels(pixels)
        unique == Unique(filtered)
        keeps_saturation == ~average_saturation_below(pixels, BOOST_AVG_SATURATION)
    IN IF average_saturation_below(filtered, LOW_AVG_SATURATION_THRESHOLD)
       THEN Returned("neutral", "low_saturation", {}, FALSE)
       ELSE IF PixelCount(filtered) < MIN_PIXELS_FOR_CLUSTERING
       THEN Returned("neutral", "too_few_pixels", {}, FALSE)
       ELSE IF Min2(clusters, Cardinality(unique)) = 1
       THEN Returned("pixel", "one_color", unique,
                     (\A c \in unique : color_saturation_low(c)) /\ keeps_saturation)
       ELSE Returned("center", "kmeans", cluster, center_low /\ keeps_saturation)

\* get_dominant_color.  KMeans is the library's: the dominant cluster is
\* `cluster`, some colors of the filtered pixels, and `center_low` tells
\* whether the saturation of its center is below MIN_RESULT_SATURATION
get_dominant_color(pixels, clusters, cluster, center_low) ==
    LET filtered == filter_pixels(pixels)
        unique == Unique(filtered)
        keeps_saturation == ~average_saturation_below(pixels, BOOST_AVG_SATURATION)
    IN IF average_saturation_below(pixels, LOW_AVG_SATURATION_THRESHOLD)
       THEN Returned("neutral", "low_saturation", {}, FALSE)
       ELSE IF PixelCount(filtered) < MIN_PIXELS_FOR_CLUSTERING
       THEN Returned("neutral", "too_few_pixels", {}, FALSE)
       ELSE IF Min2(clusters, Cardinality(unique)) = 1
       THEN Returned("pixel", "one_color", unique,
                     (\A c \in unique : color_saturation_low(c)) /\ keeps_saturation)
       ELSE Returned("center", "kmeans", cluster, center_low /\ keeps_saturation)

\* how many pixels of a color an image holds: the unsaturated colors may fill
\* the image, the others come in none, one, one short of MaxCopies, or MaxCopies
Copies(c) ==
    IF c = 1 THEN {0, MaxCopies, 20 * MaxCopies}
    ELSE IF c = 2 THEN {0, MaxCopies}
    ELSE {0, 1, MaxCopies - 1, MaxCopies}

NotReturned == Returned("", "", {}, FALSE)

DominantInit ==
    /\ dpc = "call"
    /\ \E gray \in Copies(1), white \in Copies(2), red \in Copies(3),
          pale \in Copies(4), dull \in Copies(5), black \in Copies(6),
          dim \in Copies(7) :
          image_pixels = <<gray, white, red, pale, dull, black, dim>>
    /\ n_clusters \in {3, 5}
    /\ dominant = NotReturned

DominantIdle ==
    /\ dpc = "idle"
    /\ image_pixels = <<0, 0, 0, 0, 0, 0, 0>>
    /\ n_clusters = 0
    /\ dominant = NotReturned

\* the dominant cluster KMeans may find: with no more colors than clusters
\* every color is a cluster of its own and the dominant one holds the most
\* pixels; with more colors it is some of them
DominantClusters(filtered, clusters) ==
    LET unique == Unique(filtered)
    IN IF unique = {} THEN {{}}
       ELSE IF Cardinality(unique) <= clusters
       THEN {{c} : c \in {m \in unique : \A o \in unique : filtered[m] >= filtered[o]}}
       ELSE (SUBSET unique) \ {{}}

GetDominantColor ==
    /\ dpc = "call"
    /\ \E cluster \in DominantClusters(filter_pixels(image_pixels), n_clusters),
          center_low \in BOOLEAN :
          /\ (Cardinality(cluster) = 1 =>
                center_low = (\A c \in cluster : color_saturation_low(c)))
          /\ dominant' = get_dominant_color(image_pixels, n_clusters, cluster, center_low)
    /\ dpc' = "done"
    /\ UNCHANGED <<image_pixels, n_clusters>>
    /\ UNCHANGED notDominant

DominantNext == GetDominantColor

(***************************************************************************)
(* src/perspective_transformer.py: the rasters of transform_product,       *)
(* transform_multiple and get_warped_product, and src/file_utils.py: the   *)
(* decoded images load_image_cv2 caches                                    *)
(***************************************************************************)
\* An image is modelled by one row of pixels of an image whose rows are all
\* equal; a pixel is [bgr, a].  An array is an image in a buffer: buf names
\* the buffer, "fresh" for one no field or cache entry refers to.
ImageWidth == 8
MaxCalls == 2

Pixel(bgr, a) == [bgr |-> bgr, a |-> a]

Array(channels, px, buf) == [channels |-> channels, px |-> px, buf |-> buf]

NoArray == Array(0, <<>>, "none")

Transparent == Pixel(<<0, 0, 0>>, 0)

TemplateKey == "template.png"

RasterPaths == {"d1/a.png", "d1/b.png", "d2/c.png"}

\* the product files on disk: a.png is BGR, b.png is half-transparent BGRA,
\* c.png does not exist
ProductFile(path) ==
    IF path = "d1/a.png"
    THEN Array(3, <<Pixel(<<250, 10, 10>>, 255), Pixel(<<10, 10, 250>>, 255)>>, "fresh")
    ELSE IF path = "d1/b.png"
    THEN Array(4, <<Pixel(<<10, 250, 10>>, 128), Pixel(<<10, 250, 10>>, 255)>>, "fresh")
    ELSE NoArray

\* template files: a plain BGRA one, and a BGR one dark on the left and light
\* on the right
RasterTemplates ==
    {Array(4, [x \in 1..ImageWidth |-> Pixel(<<200, 200, 200>>, 255)], "fresh"),
     Array(3, [x \in 1..ImageWidth |-> IF 2 * x <= ImageWidth
                                        THEN Pixel(<<40, 40, 40>>, 255)
                                        ELSE Pixel(<<200, 200, 200>>, 255)], "fresh")}

\* destination quadrilaterals (TL, TR, BR, BL) over the columns lo..hi (0-based)
Area(lo, hi) == <<<<lo, 0>>, <<hi, 0>>, <<hi, ImageWidth - 1>>, <<lo, ImageWidth - 1>>>>

Areas == {Area(0, 4), Area(5, 7), Area(2, 5)}

\* the memory the calls share: self._template and _image_cache
Mem(tpl, cache) == [template |-> tpl, cache |-> cache]

\* an in-place assignment arr[...] = px: whatever refers to the buffer sees it
WriteInPlace(mem, arr, px) ==
    [mem |-> Mem(IF arr.buf = "template" THEN [mem.template EXCEPT !.px = px]
                 ELSE mem.template,
                 [k \in DOMAIN mem.cache |->
                     IF arr.buf = k THEN [mem.cache[k] EXCEPT !.px = px]
                     ELSE mem.cache[k]]),
     out |-> [arr EXCEPT !.px = px]]

\* arr.copy()
Copy(arr) == [arr EXCEPT !.buf = "fresh"]

\* cv2.cvtColor(arr, cv2.COLOR_BGR2BGRA): a new array with alpha 255
BGR2BGRA(arr) ==
    Array(4, [x \in 1..Len(arr.px) |-> Pixel(arr.px[x].bgr, 255)], "fresh")

\* Mutant: a cache hit returns the cached array itself.
load_decoded_no_copy(mem, path) ==
    IF mem.cache[path] # NoArray
    THEN [mem |-> mem, out |-> mem.cache[path], raised |-> ""]
    ELSE IF ProductFile(path) = NoArray
    THEN [mem |-> mem, out |-> NoArray, raised |-> "ValueError"]
    ELSE [mem |-> Mem(mem.template,
                      [mem.cache EXCEPT ![path] = [ProductFile(path) EXCEPT !.buf = path]]),
          out |-> ProductFile(path), raised |-> ""]

\* load_image_cv2 with use_cache: a hit returns a copy of the entry, a miss
\* decodes the file, stores a copy and returns the decoded array
load_decoded(mem, path) ==
    IF mem.cache[path] # NoArray
    THEN [mem |-> mem, out |-> Copy(mem.cache[path]), raised |-> ""]
    ELSE IF ProductFile(path) = NoArray
    THEN [mem |-> mem, out |-> NoArray, raised |-> "ValueError"]
    ELSE [mem |-> Mem(mem.template,
                      [mem.cache EXCEPT ![path] = [ProductFile(path) EXCEPT !.buf = path]]),
          out |-> ProductFile(path), raised |-> ""]

\* the columns (1-based) a destination quadrilateral covers
MinX(dst_points) == Min2(Min2(dst_points[1][1], dst_points[2][1]),
                         Min2(dst_points[3][1], dst_points[4][1]))
MaxX(dst_points) == Max2(Max2(dst_points[1][1], dst_points[2][1]),
                         Max2(dst_points[3][1], dst_points[4][1]))

\* _create_rounded_mask: 255 inside, lower at the rounded border
rounded_mask(x, width, radius) ==
    IF radius <= 0 THEN 255 ELSE IF x = 1 \/ x = width THEN 128 ELSE 255

\* cv2.GaussianBlur(alpha, (3, 3), 0.5) along the row, the border reflected
blurred_alpha(px, x) ==
    LET left == IF x = 1 THEN px[Min2(2, Len(px))].a ELSE px[x - 1].a
        right == IF x = Len(px) THEN px[Max2(1, Len(px) - 1)].a ELSE px[x + 1].a
    IN (left + 6 * px[x].a + right) \div 8

\* _warp_product_to_points: the product made BGRA (a copy), its alpha
\* multiplied by the rounded mask when corner_radius > 0, warped onto the
\* columns of dst_points in an array of the template's size, the alpha
\* smoothed when corner_radius > 0
warp_product_to_points(product, dst_points, corner_radius) ==
    LET bgra == IF product.channels = 3 THEN BGR2BGRA(product) ELSE Copy(product)
        w == Len(bgra.px)
        masked == [x \in 1..w |->
                     IF corner_radius > 0
                     THEN Pixel(bgra.px[x].bgr,
                                (bgra.px[x].a * rounded_mask(x, w, corner_radius)) \div 255)
                     ELSE bgra.px[x]]
        lo == MinX(dst_points) + 1
        hi == MaxX(dst_points) + 1
        warped == [x \in 1..ImageWidth |->
                     IF x < lo \/ x > hi THEN Transparent
                     ELSE masked[((x - lo) * w) \div (hi - lo + 1) + 1]]
    IN Array(4, IF corner_radius > 0
                THEN [x \in 1..ImageWidth |-> Pixel(warped[x].bgr, blurred_alpha(warped, x))]
                ELSE warped,
             "fresh")

\* _warp_product: the same steps onto self._dst_points
warp_product(product, dst_points, corner_radius) ==
    warp_product_to_points(product, dst_points, corner_radius)

\* the central sample region of _apply_color_blend: columns
\* max(0, cx - sample_w) .. cx + sample_w - 1 (0-based)
CenterRegion(w) ==
    LET cx == w \div 2
        sample_w == w \div 8
    IN {x \in 1..w : x - 1 >= Max2(0, cx - sample_w) /\ x - 1 < cx + sample_w}

RECURSIVE SumChannel(_, _, _)
SumChannel(px, region, ch) ==
    IF region = {} THEN 0
    ELSE LET x == CHOOSE y \in region : TRUE
         IN px[x].bgr[ch] + SumChannel(px, region \ {x}, ch)

\* avg_color = np.mean(center_region, axis=(0, 1)), as the sums over count
avg_color(tmpl) ==
    LET region == CenterRegion(Len(tmpl.px))
    IN [sum |-> [ch \in 1..3 |-> SumChannel(tmpl.px, region, ch)],
        count |-> Cardinality(region)]

NoAverage == [sum |-> <<0, 0, 0>>, count |-> 0]

Clip(v) == IF v < 0 THEN 0 ELSE IF v > 255 THEN 255 ELSE v

\* _apply_color_blend; blend_strength is in hundredths.  The product itself
\* is returned when there is nothing to blend, a blended copy otherwise.
apply_color_blend(product, tmpl, blend_strength) ==
    IF blend_strength <= 0 THEN [out |-> product, avg |-> NoAverage]
    ELSE IF ~\E x \in 1..Len(product.px) : product.px[x].a > 10
    THEN [out |-> product, avg |-> NoAverage]
    ELSE LET avg == avg_color(tmpl)
             blend(v, ch) ==
                 Clip((v * (100 - blend_strength) * avg.count + avg.sum[ch] * blend_strength)
                         \div (100 * avg.count))
         IN [out |-> Array(product.channels,
                           [x \in 1..Len(product.px) |->
                               Pixel([ch \in 1..3 |-> blend(product.px[x].bgr[ch], ch)],
                                     product.px[x].a)],
                           "fresh"),
             avg |-> avg]

\* alpha * product + (1 - alpha) * template on the three color channels
over(product, tmpl) ==
    [x \in 1..Len(tmpl.px) |->
        Pixel([ch \in 1..3 |->
                  (product.px[x].a * product.px[x].bgr[ch]
                     + (255 - product.px[x].a) * tmpl.px[x].bgr[ch]) \div 255],
              tmpl.px[x].a)]

\* _composite_with_alpha: the template converted to BGRA or copied, the
\* product blended toward the template's average, then composited into the
\* local template
composite_with_alpha(mem, tmpl, product, blend_strength) ==
    LET local == IF tmpl.channels = 3 THEN BGR2BGRA(tmpl) ELSE Copy(tmpl)
        blended == apply_color_blend(product, local, blend_strength)
        written == WriteInPlace(mem, local, over(blended.out, local))
    IN [mem |-> written.mem, out |-> written.out, avg |-> blended.avg]

\* what a call hands back: the array, the error list, the exception, and the
\* average colors its blends used, one per composited area
Outcome(mem, out, errs, raised, avgs) ==
    [mem |-> mem, out |-> out, errs |-> errs, raised |-> raised, avgs |-> avgs]

\* transform_product
transform_product(mem, self, path) ==
    IF ProductFile(path) = NoArray
    THEN Outcome(mem, NoArray, <<>>, "FileNotFoundError", <<>>)
    ELSE LET loaded == load_decoded(mem, path)
             product == IF loaded.out.channels = 3 THEN BGR2BGRA(loaded.out) ELSE loaded.out
             warped == warp_product(product, self.corner_points, self.corner_radius)
             done == composite_with_alpha(loaded.mem, loaded.mem.template, warped,
                                          self.blend_strength)
         IN Outcome(done.mem, done.out, <<>>, "", <<done.avg>>)

\* get_warped_product
get_warped_product(mem, self, path, apply_blend) ==
    IF ProductFile(path) = NoArray
    THEN Outcome(mem, NoArray, <<>>, "FileNotFoundError", <<>>)
    ELSE LET loaded == load_decoded(mem, path)
             product == IF loaded.out.channels = 3 THEN BGR2BGRA(loaded.out) ELSE loaded.out
             warped == warp_product(product, self.corner_points, self.corner_radius)
         IN IF apply_blend /\ self.blend_strength > 0
            THEN LET blended == apply_color_blend(warped, loaded.mem.template,
                                                  self.blend_strength)
                 IN Outcome(loaded.mem, blended.out, <<>>, "", <<blended.avg>>)
            ELSE Outcome(loaded.mem, warped, <<>>, "", <<>>)

\* Mutant: the warped product is composited without the color blend.
transform_area_no_blend(acc, self, path, idx) ==
    IF ProductFile(path) = NoArray
    THEN [acc EXCEPT !.errs = Append(@, <<PathName(path), "FileNotFoundError">>)]
    ELSE LET loaded == load_decoded(acc.mem, path)
             product == IF loaded.out.channels = 3 THEN BGR2BGRA(loaded.out) ELSE loaded.out
             warped == warp_product_to_points(product, self.point_sets[idx + 1],
                                              self.corner_radius)
             written == WriteInPlace(loaded.mem, acc.out, over(warped, acc.out))
         IN Outcome(written.mem, written.out, acc.errs, "", Append(acc.avgs, NoAverage))

\* transform_multiple, the try block of one point set: load, warp onto the
\* point set, blend toward the average of result, composite into result
transform_area(acc, self, path, idx) ==
    IF ProductFile(path) = NoArray
    THEN [acc EXCEPT !.errs = Append(@, <<PathName(path), "FileNotFoundError">>)]
    ELSE LET loaded == load_decoded(acc.mem, path)
             product == IF loaded.out.channels = 3 THEN BGR2BGRA(loaded.out) ELSE loaded.out
             warped == warp_product_to_points(product, self.point_sets[idx + 1],
                                              self.corner_radius)
             blended == IF self.blend_strength > 0
                        THEN apply_color_blend(warped, acc.out, self.blend_strength)
                        ELSE [out |-> warped, avg |-> NoAverage]
             written == WriteInPlace(loaded.mem, acc.out, over(blended.out, acc.out))
         IN Outcome(written.mem, written.out, acc.errs, "", Append(acc.avgs, blended.avg))

\* the loop of transform_multiple from point set idx (0-based) on
RECURSIVE transform_areas(_, _, _, _)
transform_areas(acc, self, paths, idx) ==
    IF idx >= Len(self.point_sets) THEN acc
    ELSE LET path == product_for_area(paths, non_null(paths), idx)
         IN transform_areas(IF path = None THEN acc
                            ELSE transform_area(acc, self, path, idx),
                            self, paths, idx + 1)

\* transform_multiple
transform_multiple(mem, self, paths) ==
    LET composed == IF mem.template.channels = 3 THEN BGR2BGRA(mem.template)
                  ELSE Copy(mem.template)
    IN IF paths = <<>> THEN Outcome(mem, composed, <<>>, "", <<>>)
       ELSE transform_areas(Outcome(mem, composed, <<>>, "", <<>>), self, paths, 0)

\* the transformers: one or two point sets, with and without corner radius
\* and color blend (blend_strength in hundredths)
RasterPointSets ==
    {<<Area(0, 4)>>, <<Area(0, 4), Area(5, 7)>>, <<Area(2, 5), Area(0, 4)>>}

RasterSettings == {<<0, 0>>, <<0, 25>>, <<40, 25>>}

Call(op, paths, flag) == [op |-> op, paths |-> paths, flag |-> flag]

NoCall == Call("none", <<>>, FALSE)

ProductLists ==
    {<<>>, <<"d1/a.png">>, <<"d1/b.png">>, <<"d1/a.png", "d1/b.png">>,
     <<None, "d1/a.png">>, <<"d2/c.png", "d1/b.png">>}

Calls ==
    {Call("transform_product", <<p>>, FALSE) : p \in RasterPaths}
      \cup {Call("transform_multiple", ps, FALSE) : ps \in ProductLists}
      \cup {Call("get_warped_product", <<p>>, b) : p \in {"d1/a.png", "d1/b.png"},
                                                   b \in BOOLEAN}
      \cup {Call("load_image_cv2", <<p>>, FALSE) : p \in RasterPaths}

Result(out, errs, raised, avgs) ==
    [out |-> out, errs |-> errs, raised |-> raised, avgs |-> avgs]

NotCalled == Result(NoArray, <<>>, "not called", <<>>)

\* the state PerspectiveTransformer.__init__ leaves: the template decoded by
\* load_image_cv2, which keeps a copy in the cache
RasterInit ==
    /\ \E file \in RasterTemplates, sets \in RasterPointSets,
          setting \in RasterSettings :
          /\ template_file = file
          /\ raster_self = [corner_points |-> sets[1], point_sets |-> sets,
                            corner_radius |-> setting[1], blend_strength |-> setting[2]]
          /\ raster_mem = Mem([file EXCEPT !.buf = "template"],
                              [k \in RasterPaths \cup {TemplateKey} |->
                                  IF k = TemplateKey THEN [file EXCEPT !.buf = TemplateKey]
                                  ELSE NoArray])
    /\ call_results = [c \in Calls |-> NotCalled]
    /\ ncalls = 0
    /\ last_call = NoCall
    /\ caller_wrote = FALSE
    /\ repeated_differs = FALSE

RasterIdle ==
    /\ template_file = NoArray
    /\ raster_self = [corner_points |-> <<>>, point_sets |-> <<>>,
                      corner_radius |-> 0, blend_strength |-> 0]
    /\ raster_mem = Mem(NoArray, <<>>)
    /\ call_results = <<>>
    /\ ncalls = 0
    /\ last_call = NoCall
    /\ caller_wrote = FALSE
    /\ repeated_differs = FALSE

\* a call returns: its result is kept, and compared with the result the same
\* call returned before
Returns(call, outcome) ==
    LET res == Result(outcome.out, outcome.errs, outcome.raised, outcome.avgs)
    IN /\ ncalls < MaxCalls
       /\ raster_mem' = outcome.mem
       /\ call_results' = [call_results EXCEPT ![call] = res]
       /\ repeated_differs' = (repeated_differs
                                  \/ (call_results[call] # NotCalled /\ call_results[call] # res))
       /\ ncalls' = ncalls + 1
       /\ last_call' = call
       /\ caller_wrote' = FALSE
       /\ UNCHANGED <<template_file, raster_self>>
       /\ UNCHANGED notRaster

TransformProduct ==
    \E p \in RasterPaths :
        Returns(Call("transform_product", <<p>>, FALSE),
                transform_product(raster_mem, raster_self, p))

TransformMultiple ==
    \E ps \in ProductLists :
        Returns(Call("transform_multiple", ps, FALSE),
                transform_multiple(raster_mem, raster_self, ps))

GetWarpedProduct ==
    \E p \in {"d1/a.png", "d1/b.png"}, apply_blend \in BOOLEAN :
        Returns(Call("get_warped_product", <<p>>, apply_blend),
                get_warped_product(raster_mem, raster_self, p, apply_blend))

\* the caller loads an image itself
LoadDecoded ==
    \E p \in RasterPaths :
        LET loaded == load_decoded(raster_mem, p)
        IN Returns(Call("load_image_cv2", <<p>>, FALSE),
                   Outcome(loaded.mem, loaded.out, <<>>, loaded.raised, <<>>))

\* the caller overwrites the array the last call returned
CallerWrites ==
    /\ last_call # NoCall
    /\ ~caller_wrote
    /\ call_results[last_call].out # NoArray
    /\ LET arr == call_results[last_call].out
       IN raster_mem' = WriteInPlace(raster_mem, arr,
                                     [x \in 1..Len(arr.px) |-> Transparent]).mem
    /\ caller_wrote' = TRUE
    /\ UNCHANGED <<template_file, raster_self, call_results, ncalls, last_call, repeated_differs>>
    /\ UNCHANGED notRaster

RasterNext ==
    TransformProduct \/ TransformMultiple \/ GetWarpedProduct \/ LoadDecoded \/ CallerWrites

(***************************************************************************)
(* backend/app/routers/generate.py: start_generation, stop_generation and  *)
(* the background task process_generation                                  *)
(***************************************************************************)
MaxTemplates == 1
MaxFiles == 2

\* the background tasks two accepted start requests schedule
Runs == {"first", "second"}

\* the folders of a request that exist in storage
FolderCounts == {0, 1}

NoTask ==
    [pc |-> "none", folder_i |-> 0, file_i |-> 0, t_idx |-> 0,
     stop_accepted |-> FALSE, started_after_stop |-> FALSE]

\* accepted by start_generation and not yet through its final status
Executing(task) == task.pc \notin {"none", "reset", "done"}

\* inside process_generation, between its first and its final status
Running(task) == task.pc \in {"for_folder", "for_file", "for_template", "item", "publish"}

GenInit ==
    /\ is_running = FALSE
    /\ cancel_flag = FALSE
    /\ tasks = [run \in Runs |-> NoTask]
    /\ job \in [templates : 0..MaxTemplates, folders : FolderCounts, files : 0..MaxFiles]
    /\ start_response = ""
    /\ stop_response = ""

GenIdle ==
    /\ is_running = FALSE
    /\ cancel_flag = FALSE
    /\ tasks = <<>>
    /\ job = [templates |-> 0, folders |-> 0, files |-> 0]
    /\ start_response = ""
    /\ stop_response = ""

\* start_generation, lines 135-159: rejected while the published status is
\* running, else the flag is cleared and the task is handed to BackgroundTasks
StartGeneration ==
    /\ IF is_running
       THEN /\ start_response' = "Generation already in progress"
            /\ UNCHANGED <<cancel_flag, tasks>>
       ELSE \E run \in Runs :
               /\ tasks[run].pc = "none"
               /\ run = "second" => tasks["first"].pc # "none"
               /\ cancel_flag' = FALSE
               /\ tasks' = [tasks EXCEPT ![run] = [NoTask EXCEPT !.pc = "scheduled"]]
               /\ start_response' = "started"
    /\ UNCHANGED <<is_running, job, stop_response>>
    /\ UNCHANGED notGen

\* stop_generation, lines 162-171
StopGeneration ==
    /\ IF ~is_running
       THEN /\ stop_response' = "No generation in progress"
            /\ UNCHANGED <<cancel_flag, tasks>>
       ELSE /\ cancel_flag' = TRUE
            /\ stop_response' = "stopping"
            /\ tasks' = [run \in Runs |->
                            IF Running(tasks[run])
                            THEN [tasks[run] EXCEPT !.stop_accepted = TRUE]
                            ELSE tasks[run]]
    /\ UNCHANGED <<is_running, job, start_response>>
    /\ UNCHANGED notGen

\* process_generation, lines 40-64: without templates or folders the status
\* is published as not running and the task returns; else the total is
\* counted and the status is published as running
TaskBegin(run) ==
    /\ tasks[run].pc = "scheduled"
    /\ IF job.templates = 0 \/ job.folders = 0
       THEN /\ is_running' = FALSE
            /\ tasks' = [tasks EXCEPT ![run].pc = "done"]
       ELSE /\ is_running' = TRUE
            /\ tasks' = [tasks EXCEPT ![run].pc = "for_folder"]
    /\ UNCHANGED <<cancel_flag, job, start_response, stop_response>>
    /\ UNCHANGED notGen

\* lines 69-71: for folder in folders: if _cancel_flag: break
TaskForFolder(run) ==
    /\ tasks[run].pc = "for_folder"
    /\ tasks' = [tasks EXCEPT ![run] =
                    IF @.folder_i >= job.folders \/ cancel_flag
                    THEN [@ EXCEPT !.pc = "publish"]
                    ELSE [@ EXCEPT !.pc = "for_file", !.file_i = 0]]
    /\ UNCHANGED <<is_running, cancel_flag, job, start_response, stop_response>>
    /\ UNCHANGED notGen

\* lines 79-81: for print_file in files: if _cancel_flag: break
TaskForFile(run) ==
    /\ tasks[run].pc = "for_file"
    /\ tasks' = [tasks EXCEPT ![run] =
                    IF @.file_i >= job.files \/ cancel_flag
                    THEN [@ EXCEPT !.pc = "for_folder", !.folder_i = @ + 1]
                    ELSE [@ EXCEPT !.pc = "for_template", !.t_idx = 0]]
    /\ UNCHANGED <<is_running, cancel_flag, job, start_response, stop_response>>
    /\ UNCHANGED notGen

\* lines 83-85: for template in templates: if _cancel_flag: break; past the
\* check the item is started
TaskForTemplate(run) ==
    /\ tasks[run].pc = "for_template"
    /\ tasks' = [tasks EXCEPT ![run] =
                    IF @.t_idx >= job.templates \/ cancel_flag
                    THEN [@ EXCEPT !.pc = "for_file", !.file_i = @ + 1]
                    ELSE [@ EXCEPT !.pc = "item",
                                   !.started_after_stop = @ \/ tasks[run].stop_accepted]]
    /\ UNCHANGED <<is_running, cancel_flag, job, start_response, stop_response>>
    /\ UNCHANGED notGen

\* lines 87-122: generate_card, its exception recorded, then the status
\* published as running with the new count
TaskItem(run) ==
    /\ tasks[run].pc = "item"
    /\ is_running' = TRUE
    /\ tasks' = [tasks EXCEPT ![run] = [@ EXCEPT !.pc = "for_template", !.t_idx = @ + 1]]
    /\ UNCHANGED <<cancel_flag, job, start_response, stop_response>>
    /\ UNCHANGED notGen

\* lines 125-131: the final status
TaskPublish(run) ==
    /\ tasks[run].pc = "publish"
    /\ is_running' = FALSE
    /\ tasks' = [tasks EXCEPT ![run].pc = "reset"]
    /\ UNCHANGED <<cancel_flag, job, start_response, stop_response>>
    /\ UNCHANGED notGen

\* line 132: _cancel_flag = False
TaskReset(run) ==
    /\ tasks[run].pc = "reset"
    /\ cancel_flag' = FALSE
    /\ tasks' = [tasks EXCEPT ![run].pc = "done"]
    /\ UNCHANGED <<is_running, job, start_response, stop_response>>
    /\ UNCHANGED notGen

ProcessGeneration ==
    \E run \in Runs :
        \/ TaskBegin(run)
        \/ TaskForFolder(run)
        \/ TaskForFile(run)
        \/ TaskForTemplate(run)
        \/ TaskItem(run)
        \/ TaskPublish(run)
        \/ TaskReset(run)

GenNext == StartGeneration \/ StopGeneration \/ ProcessGeneration

(***************************************************************************)
(* backend/app/storage.py and routers/templates.py: the stored templates,  *)
(* their points and their point_sets                                       *)
(***************************************************************************)
TemplateIds == {"t1", "t2"}

\* width and height of the uploaded images
UploadSizes == {<<10, 20>>, <<100, 100>>}

\* models.py PointSet, lines 11-14: the length of the list is not validated
PointSet(index, pts) == [index |-> index, points |-> pts]

QuadA == <<<<0, 0>>, <<4, 0>>, <<4, 4>>, <<0, 4>>>>
QuadB == <<<<5, 0>>, <<9, 0>>, <<9, 4>>, <<5, 4>>>>
Triangle == <<<<0, 0>>, <<4, 0>>, <<4, 4>>>>

\* the point lists a request body carries
BodyPoints == {<<>>, Triangle, QuadA, QuadB}

\* the point_sets lists a request body carries
BodyPointSets ==
    {<<>>, <<PointSet(0, QuadA)>>, <<PointSet(0, QuadB), PointSet(1, QuadA)>>,
     <<PointSet(0, Triangle), PointSet(1, QuadA)>>}

\* the fields of TemplateUpdate that were set: model_dump(exclude_unset=True)
TemplateUpdates ==
    [has_points : BOOLEAN, points : BodyPoints,
     has_point_sets : BOOLEAN, point_sets : BodyPointSets]

NoTemplate == [present |-> FALSE, points |-> <<>>, point_sets |-> <<>>]

StoredTemplate(pts, sets) == [present |-> TRUE, points |-> pts, point_sets |-> sets]

\* upload_template, lines 80-84: int(w * 0.1) and so on
default_points(w, h) ==
    << <<(w * 10) \div 100, (h * 35) \div 100>>,
       <<(w * 90) \div 100, (h * 40) \div 100>>,
       <<(w * 85) \div 100, (h * 85) \div 100>>,
       <<(w * 5) \div 100, (h * 75) \div 100>> >>

\* Storage._migrate_points_to_point_sets, lines 71-83
migrate_points_to_point_sets(tpl) ==
    IF tpl.points # <<>> /\ Len(tpl.points) = 4
    THEN [tpl EXCEPT !.point_sets = <<PointSet(0, tpl.points)>>]
    ELSE tpl

\* Storage._load, lines 46-49, on a legacy entry of storage.json
load_template(tpl) ==
    IF tpl.point_sets = <<>> /\ tpl.points # <<>>
    THEN migrate_points_to_point_sets(tpl)
    ELSE tpl

\* Storage._sync_points_and_point_sets, lines 120-170
sync_points_and_point_sets(tpl, upd) ==
    IF upd.has_point_sets /\ upd.point_sets # <<>>
    THEN IF Len(upd.point_sets[1].points) = 4
         THEN [upd EXCEPT !.has_points = TRUE, !.points = upd.point_sets[1].points]
         ELSE upd
    ELSE IF upd.has_points /\ upd.points # <<>>
    THEN [upd EXCEPT !.has_point_sets = TRUE,
                     !.point_sets = IF tpl.point_sets # <<>>
                                    THEN [tpl.point_sets EXCEPT ![1] = PointSet(0, upd.points)]
                                    ELSE <<PointSet(0, upd.points)>>]
    ELSE upd

\* Template.model_copy(update=updates): the given fields replace the stored
\* ones, without validation
model_copy(tpl, upd) ==
    [tpl EXCEPT !.points = IF upd.has_points THEN upd.points ELSE @,
                !.point_sets = IF upd.has_point_sets THEN upd.point_sets ELSE @]

\* Storage.update_template, lines 106-118
update_template(tpl, upd) == model_copy(tpl, sync_points_and_point_sets(tpl, upd))

NoUpdate == [has_points |-> FALSE, points |-> <<>>, has_point_sets |-> FALSE,
             point_sets |-> <<>>]

\* Storage.__init__: storage.json is absent or holds a legacy template
StoreInit ==
    /\ stored \in [TemplateIds ->
                     {NoTemplate} \cup {load_template(StoredTemplate(pts, <<>>)) :
                                          pts \in {QuadA, Triangle}}]
    /\ last_update = NoUpdate

StoreIdle ==
    /\ stored = <<>>
    /\ last_update = NoUpdate

\* upload_template, routers/templates.py lines 80-107, and add_template
UploadTemplate ==
    /\ \E id \in TemplateIds, size \in UploadSizes :
          /\ ~stored[id].present
          /\ LET pts == default_points(size[1], size[2])
             IN stored' = [stored EXCEPT ![id] = StoredTemplate(pts, <<PointSet(0, pts)>>)]
    /\ UNCHANGED last_update
    /\ UNCHANGED notStore

\* PUT /{template_id}, routers/templates.py lines 119-163, and
\* Storage.update_template
UpdateTemplate ==
    /\ \E id \in TemplateIds, upd \in TemplateUpdates :
          /\ stored[id].present
          /\ ~upd.has_points => upd.points = <<>>
          /\ ~upd.has_point_sets => upd.point_sets = <<>>
          /\ stored' = [stored EXCEPT ![id] = update_template(stored[id], upd)]
          /\ last_update' = upd
    /\ UNCHANGED notStore

\* delete_template, storage.py lines 172-177
DeleteTemplate ==
    /\ \E id \in TemplateIds :
          /\ stored[id].present
          /\ stored' = [stored EXCEPT ![id] = NoTemplate]
    /\ UNCHANGED last_update
    /\ UNCHANGED notStore

StoreNext == UploadTemplate \/ UpdateTemplate \/ DeleteTemplate

(***************************************************************************)
(* Specifications                                                          *)
(***************************************************************************)
InitValidator ==
    ValInit /\ CtorIdle /\ TMIdle /\ ModeIdle /\ LeafIdle /\ GroupIdle /\ PhotoIdle /\ ProcIdle /\ CacheIdle /\ ThrIdle /\ RecolorIdle /\ DominantIdle /\ RasterIdle /\ GenIdle /\ StoreIdle

SpecValidator == InitValidator /\ [][ValNext]_vars

InitCtor ==
    ValIdle /\ CtorInit /\ TMIdle /\ ModeIdle /\ LeafIdle /\ GroupIdle /\ PhotoIdle /\ ProcIdle /\ CacheIdle /\ ThrIdle /\ RecolorIdle /\ DominantIdle /\ RasterIdle /\ GenIdle /\ StoreIdle

SpecCtor == InitCtor /\ [][CtorNext]_vars

InitMulti ==
    ValIdle /\ ConstructedInit /\ TMInit /\ ModeIdle /\ LeafIdle /\ GroupIdle /\ PhotoIdle /\ ProcIdle /\ CacheIdle /\ ThrIdle /\ RecolorIdle /\ DominantIdle /\ RasterIdle /\ GenIdle /\ StoreIdle

SpecMulti == InitMulti /\ [][TMNext]_vars

InitMode ==
    ValIdle /\ CtorIdle /\ TMIdle /\ ModeInit /\ LeafIdle /\ GroupIdle /\ PhotoIdle /\ ProcIdle /\ CacheIdle /\ ThrIdle /\ RecolorIdle /\ DominantIdle /\ RasterIdle /\ GenIdle /\ StoreIdle

SpecMode == InitMode /\ [][ModeNext]_vars

InitLeaf ==
    ValIdle /\ CtorIdle /\ TMIdle /\ ModeIdle /\ LeafInit /\ GroupIdle /\ PhotoIdle /\ ProcIdle /\ CacheIdle /\ ThrIdle /\ RecolorIdle /\ DominantIdle /\ RasterIdle /\ GenIdle /\ StoreIdle

SpecLeaf == InitLeaf /\ [][LeafNext]_vars

InitGroup ==
    ValIdle /\ CtorIdle /\ TMIdle /\ ModeIdle /\ LeafIdle /\ GroupInit /\ PhotoIdle /\ ProcIdle /\ CacheIdle /\ ThrIdle /\ RecolorIdle /\ DominantIdle /\ RasterIdle /\ GenIdle /\ StoreIdle

SpecGroup == InitGroup /\ [][GroupNext]_vars

InitPhoto ==
    ValIdle /\ CtorIdle /\ TMIdle /\ ModeIdle /\ LeafIdle /\ GroupIdle /\ PhotoInit /\ ProcIdle /\ CacheIdle /\ ThrIdle /\ RecolorIdle /\ DominantIdle /\ RasterIdle /\ GenIdle /\ StoreIdle

SpecPhoto == InitPhoto /\ [][PhotoNext]_vars

InitProcess ==
    ValIdle /\ CtorIdle /\ TMIdle /\ ProcInit /\ LeafIdle /\ GroupIdle /\ PhotoIdle /\ CacheIdle /\ ThrIdle /\ RecolorIdle /\ DominantIdle /\ RasterIdle /\ GenIdle /\ StoreIdle

SpecProcess == InitProcess /\ [][ProcNext]_vars

InitCache ==
    ValIdle /\ CtorIdle /\ TMIdle /\ ModeIdle /\ LeafIdle /\ GroupIdle /\ PhotoIdle /\ ProcIdle /\ CacheInit /\ ThrIdle /\ RecolorIdle /\ DominantIdle /\ RasterIdle /\ GenIdle /\ StoreIdle

SpecCache == InitCache /\ [][CacheNext]_vars

InitThreads ==
    ValIdle /\ CtorIdle /\ TMIdle /\ ModeIdle /\ LeafIdle /\ GroupIdle /\ PhotoIdle /\ ProcIdle /\ CacheIdle /\ ThrInit /\ RecolorIdle /\ DominantIdle /\ RasterIdle /\ GenIdle /\ StoreIdle

SpecThreads == InitThreads /\ [][ThrNext]_vars

InitRecolor ==
    ValIdle /\ CtorIdle /\ TMIdle /\ ModeIdle /\ LeafIdle /\ GroupIdle /\ PhotoIdle /\ ProcIdle /\ CacheIdle /\ ThrIdle /\ RecolorInit /\ DominantIdle /\ RasterIdle /\ GenIdle /\ StoreIdle

SpecRecolor == InitRecolor /\ [][RecolorNext]_vars

InitDominant ==
    ValIdle /\ CtorIdle /\ TMIdle /\ ModeIdle /\ LeafIdle /\ GroupIdle /\ PhotoIdle /\ ProcIdle /\ CacheIdle /\ ThrIdle /\ RecolorIdle /\ DominantInit /\ RasterIdle /\ GenIdle /\ StoreIdle

SpecDominant == InitDominant /\ [][DominantNext]_vars

InitRaster ==
    ValIdle /\ CtorIdle /\ TMIdle /\ ModeIdle /\ LeafIdle /\ GroupIdle /\ PhotoIdle /\ ProcIdle /\ CacheIdle /\ ThrIdle /\ RecolorIdle /\ DominantIdle /\ RasterInit /\ GenIdle /\ StoreIdle

SpecRaster == InitRaster /\ [][RasterNext]_vars

InitGenerate ==
    ValIdle /\ CtorIdle /\ TMIdle /\ ModeIdle /\ LeafIdle /\ GroupIdle /\ PhotoIdle /\ ProcIdle /\ CacheIdle /\ ThrIdle /\ RecolorIdle /\ DominantIdle /\ RasterIdle /\ GenInit /\ StoreIdle

SpecGenerate == InitGenerate /\ [][GenNext]_vars

InitStorage ==
    ValIdle /\ CtorIdle /\ TMIdle /\ ModeIdle /\ LeafIdle /\ GroupIdle /\ PhotoIdle /\ ProcIdle /\ CacheIdle /\ ThrIdle /\ RecolorIdle /\ DominantIdle /\ RasterIdle /\ GenIdle /\ StoreInit

SpecStorage == InitStorage /\ [][StoreNext]_vars

(***************************************************************************)
(* Geometry used to state the validator's properties                       *)
(***************************************************************************)
\* twice the signed area of the triangle a, b, c
Orient(a, b, c) == (b[1] - a[1]) * (c[2] - a[2]) - (b[2] - a[2]) * (c[1] - a[1])

Sgn(x) == IF x > 0 THEN 1 ELSE IF x < 0 THEN -1 ELSE 0

\* segment a-b and segment c-d cross at a point interior to both
ProperCross(a, b, c, d) ==
    /\ Sgn(Orient(c, d, a)) * Sgn(Orient(c, d, b)) < 0
    /\ Sgn(Orient(a, b, c)) * Sgn(Orient(a, b, d)) < 0

\* perimeter order, convex, no three consecutive vertices collinear
StrictConvex(pts) ==
    LET t(i) == Orient(pts[i], pts[(i % 4) + 1], pts[((i + 1) % 4) + 1])
    IN (\A i \in 1..4 : t(i) > 0) \/ (\A i \in 1..4 : t(i) < 0)

\* pts with vertex k and its cyclic successor exchanged
SwapAdjacent(pts, k) ==
    LET k2 == (k % 4) + 1
    IN [i \in 1..4 |-> IF i = k THEN pts[k2] ELSE IF i = k2 THEN pts[k] ELSE pts[i]]

\* some point lies outside the image rectangle
OutsideImage(pts, w, h) ==
    \E i \in 1..Len(pts) : pts[i][1] < 0 \/ pts[i][1] >= w \/ pts[i][2] < 0 \/ pts[i][2] >= h

\* C4 (as stated): validate_points raises whenever the diagonal
\* points[0]-points[2] crosses the diagonal points[1]-points[3], and whenever
\* the list does not hold 4 points.
C4_DiagonalCrossRaises ==
    vpc = "done" =>
        ((Len(points) # 4
          \/ (Len(points) = 4 /\ ProperCross(points[1], points[3], points[2], points[4])))
         => vresult = "ValidationError")

\* C4 (amended): validate_points raises whenever an edge crosses the opposite
\* edge (points[0]-points[1] with points[2]-points[3], or points[1]-points[2]
\* with points[3]-points[0]), and whenever the list does not hold 4 points.
C4_EdgeCrossRaises ==
    vpc = "done" =>
        ((Len(points) # 4
          \/ (Len(points) = 4
              /\ (\/ ProperCross(points[1], points[2], points[3], points[4])
                  \/ ProperCross(points[2], points[3], points[4], points[1]))))
         => vresult = "ValidationError")

C4_Witness ==
    /\ vpc = "done"
    /\ Len(points) = 4
    /\ ProperCross(points[2], points[3], points[4], points[1])
    /\ vresult = "ValidationError"

\* C5: a strictly convex quadrilateral in perimeter order is accepted, and
\* every ordering obtained from one by exchanging two adjacent vertices is
\* rejected with ValidationError.
C5_ConvexAcceptedBowtieRejected ==
    (vpc = "done" /\ Len(points) = 4) =>
        /\ StrictConvex(points) => vresult = "ok"
        /\ \A k \in 1..4 :
               StrictConvex(SwapAdjacent(points, k)) => vresult = "ValidationError"

C5_Witness ==
    /\ vpc = "done"
    /\ points = << <<0, 0>>, <<0, 10>>, <<10, 0>>, <<10, 10>> >>
    /\ StrictConvex(SwapAdjacent(points, 3))
    /\ vresult = "ValidationError"

\* C6: the outcome of validate_points is the same for every image_width and
\* image_height, and a 4-point list that is not self-intersecting is accepted
\* even when points lie outside the image.
C6_NoBoundsCheck ==
    vpc = "done" =>
        /\ \A d \in ImageDims : validate_points(points, d[1], d[2]) = vresult
        /\ (Len(points) = 4 /\ ~is_self_intersecting(points)
            /\ OutsideImage(points, image_width, image_height)) => vresult = "ok"

\* the auto-detected default points (negative x) are accepted
C6_Witness ==
    /\ vpc = "done"
    /\ image_width = 1500
    /\ \E ct \in CardTypes : points = get_default_points(image_width, image_height, ct)
    /\ points[4][1] < 0
    /\ vresult = "ok"

(***************************************************************************)
(* Properties of transform_multiple                                        *)
(***************************************************************************)
\* positions of the non-null entries of product_paths
NonNullPositions == {k \in 1..Len(product_paths) : product_paths[k] # None}

\* the j-th (0-based) non-null path of product_paths, in input order
NthNonNull(j) ==
    LET k == CHOOSE m \in NonNullPositions :
                 Cardinality({q \in NonNullPositions : q < m}) = j
    IN product_paths[k]

\* the product the mapping rule gives point set idx (0-based), None to skip
ExpectedProduct(idx) ==
    IF idx + 1 \in NonNullPositions
    THEN product_paths[idx + 1]
    ELSE IF NonNullPositions # {}
         THEN NthNonNull(idx % Cardinality(NonNullPositions))
         ELSE None

FailedAreas ==
    SelectSeq([k \in 1..Len(used) |-> k],
              LAMBDA k : used[k] # None /\ fs[used[k]] # "ok")

\* C2: transform_multiple never raises for a per-area failure; each area
\* whose product fails adds exactly one (file name, message) pair naming the
\* product, every point set is still processed, and every area whose product
\* loads is composited.
C2_PerAreaErrors ==
    /\ tpc # "raised"
    /\ tpc = "returned" =>
          /\ product_paths # <<>> => Len(used) = Len(point_sets)
          /\ Len(errors) = Len(FailedAreas)
          /\ \A j \in 1..Len(errors) : errors[j][1] = PathName(used[FailedAreas[j]])
          /\ \A k \in 1..Len(used) :
                 (used[k] # None /\ fs[used[k]] = "ok") => result[k] = used[k]

C2_Witness ==
    /\ tpc = "returned"
    /\ Len(point_sets) = 3
    /\ Len(used) = 3
    /\ used[1] # None /\ fs[used[1]] = "missing"
    /\ used[2] # None /\ fs[used[2]] = "corrupt"
    /\ Len(errors) = 2
    /\ result[3] = used[3]
    /\ result[3] # Template

(***************************************************************************)
(* Properties of the constructor                                           *)
(***************************************************************************)
\* the quadrilaterals the constructor has to validate
ValidatedQuads ==
    IF arg_point_sets.given /\ arg_point_sets.sets # <<>>
    THEN {arg_point_sets.sets[k] : k \in 1..Len(arg_point_sets.sets)}
    ELSE {arg_corner_points}

BadQuad(q) == Len(q) # 4 \/ is_self_intersecting(q)

\* C7: with a loadable template, construction validates every point set
\* (point_sets before corner_points); any bad quadrilateral raises
\* ValidationError and leaves no transformer; otherwise corner_points is the
\* first point set.
C7_CtorValidatesAll ==
    (cpc = "done" /\ template.status = "ok") =>
        IF \E q \in ValidatedQuads : BadQuad(q)
        THEN cresult = "ValidationError" /\ point_sets = <<>> /\ corner_points = <<>>
        ELSE /\ cresult = "constructed"
             /\ point_sets = (IF arg_point_sets.given /\ arg_point_sets.sets # <<>>
                              THEN arg_point_sets.sets ELSE <<arg_corner_points>>)
             /\ corner_points = point_sets[1]

\* a bad quadrilateral that is not the first point set stops construction
C7_Witness ==
    /\ cpc = "done"
    /\ arg_point_sets.given
    /\ Len(arg_point_sets.sets) = 3
    /\ ~BadQuad(arg_point_sets.sets[1])
    /\ ~BadQuad(arg_point_sets.sets[2])
    /\ arg_point_sets.sets[3] = BowtieQuad
    /\ ~BadQuad(arg_corner_points)
    /\ cresult = "ValidationError"

(***************************************************************************)
(* Properties of the render mode                                           *)
(***************************************************************************)
Successes == Len(before_product) + Len(after_product)
Failures == Len(failed_layers)

\* C3: the mode is a total function of the counts s (successes) and f
\* (failures): s + f = 0 or s = 0 gives composite_fallback; f = 0 with s > 0
\* gives layer_by_layer; otherwise s/(s+f) >= 1/2 gives layer_by_layer and
\* s/(s+f) < 1/2 gives hybrid (40% hybrid, 50% and 60% layer_by_layer); the
\* call dispatches to the method of the mode.
C3_RenderMode ==
    ppc \in {"dispatch", "done"} =>
        LET s == Successes
            f == Failures
        IN /\ render_mode \in {"composite_fallback", "layer_by_layer", "hybrid"}
           /\ render_mode = "composite_fallback" <=> (s + f = 0 \/ s = 0)
           /\ render_mode = "hybrid" <=> (s > 0 /\ f > 0 /\ 2 * s < s + f)
           /\ render_mode = "layer_by_layer" <=> (s > 0 /\ (f = 0 \/ 2 * s >= s + f))
           /\ (s + f > 0 /\ 100 * s = 40 * (s + f)) => render_mode = "hybrid"
           /\ (s + f > 0 /\ 100 * s = 60 * (s + f)) => render_mode = "layer_by_layer"
           /\ (s + f > 0 /\ 100 * s = 50 * (s + f)) => render_mode = "layer_by_layer"
           /\ ppc = "done" =>
                  handler = (IF render_mode = "hybrid" THEN "_process_with_hybrid_fallback"
                             ELSE IF render_mode = "layer_by_layer" THEN "_process_layer_by_layer"
                             ELSE "_process_with_composite_fallback")

\* exactly half of the layers rendered
C3_Witness ==
    /\ ppc = "done"
    /\ Successes = 2
    /\ Failures = 2
    /\ render_mode = "layer_by_layer"

(***************************************************************************)
(* Properties of the render-method chain                                   *)
(***************************************************************************)
MethodOrder == <<"composite", "topil", "pixel_data">>

OutcomeOf(m) ==
    IF m = "composite" THEN leaf.composite
    ELSE IF m = "topil" THEN leaf.topil
    ELSE leaf.pixel_data

\* the method raised, returned nothing, or returned an image without a
\* pixel of alpha 20 or more
MethodFails(m) ==
    LET o == OutcomeOf(m)
    IN \/ o.kind = "raise"
       \/ o.kind = "none"
       \/ o.width = 0 \/ o.height = 0
       \/ (o.mode = "RGBA" /\ o.max_alpha < 20)

\* the layer offers the method
Offered(m) == m # "topil" \/ leaf.has_topil

PositionOf(m) == CHOOSE k \in 1..3 : MethodOrder[k] = m

\* attempts are made in the fixed order, a method only after every earlier
\* offered one failed, and the first valid result is the render
ChainInOrder ==
    /\ \A k \in 1..Len(attempted) :
          /\ Offered(attempted[k])
          /\ \A m \in 1..(k - 1) : PositionOf(attempted[m]) < PositionOf(attempted[k])
          /\ \A q \in 1..(PositionOf(attempted[k]) - 1) :
                 Offered(MethodOrder[q]) => MethodFails(MethodOrder[q])
    /\ \A q \in 1..3 :
          (/\ Offered(MethodOrder[q])
           /\ ~MethodFails(MethodOrder[q])
           /\ \A r \in 1..(q - 1) : Offered(MethodOrder[r]) => MethodFails(MethodOrder[r]))
          => (method_used = MethodOrder[q] /\ img = OutcomeOf(MethodOrder[q]))

AllMethodsFail == \A q \in 1..3 : Offered(MethodOrder[q]) => MethodFails(MethodOrder[q])

\* the rendered image has no pixel on the canvas
OutsideCanvas ==
    \/ leaf.left + img.width <= 0
    \/ leaf.left >= LeafCanvas[1]
    \/ leaf.top + img.height <= 0
    \/ leaf.top >= LeafCanvas[2]

\* C8 (as stated): the methods are attempted in order composite, topil,
\* pixel_data, a later one only after every earlier one failed; the first
\* valid result is the render; the layer fails only if all three fail.
C8_FailsOnlyIfAllFail ==
    lpc = "done" =>
        /\ ChainInOrder
        /\ ~lresult.ok => AllMethodsFail

\* C8 (amended): the same chain; the layer fails exactly when all methods
\* fail, or the valid render cannot be put on the canvas (the layer lies
\* completely outside the canvas, or converting or placing it raises).
C8_FailsIfAllFailOrOffCanvas ==
    lpc = "done" =>
        /\ ChainInOrder
        /\ ~lresult.ok <=> (AllMethodsFail \/ leaf.post_raises \/ OutsideCanvas)

\* composite returns an invisible image, topil a visible one, which renders
C8_Witness ==
    /\ lpc = "done"
    /\ leaf.composite.kind = "image"
    /\ leaf.composite.max_alpha = 19
    /\ leaf.has_topil
    /\ attempted = <<"composite", "topil">>
    /\ method_used = "topil"
    /\ lresult.ok

(***************************************************************************)
(* Properties of the clipping masks                                        *)
(***************************************************************************)
PixMin(a, b) == [px \in 1..2 |-> IF a[px] <= b[px] THEN a[px] ELSE b[px]]

Rendered(j) == sublayers[j].render # NoRender

\* C9 (as stated): every visible clipping sublayer is composited with the
\* pixelwise minimum of its own alpha and the alpha of the sublayer
\* immediately preceding it (as rendered, or as composited).
C9_ClipsToPredecessor ==
    gpc = "done" =>
        \A j \in 2..Len(composited) :
            (sublayers[j].clipping /\ Rendered(j) /\ Rendered(j - 1)) =>
                \/ composited[j] = PixMin(sublayers[j].render, sublayers[j - 1].render)
                \/ composited[j] = PixMin(sublayers[j].render, composited[j - 1])

\* the last failed sublayer before j, 0 when there is none
LastFailedBefore(j) ==
    LET F == {k \in 1..(j - 1) : ~Rendered(k)}
    IN IF F = {} THEN 0 ELSE CHOOSE k \in F : \A m \in F : m <= k

\* the clipping base of sublayer j: the nearest preceding sublayer that was
\* composited unclipped, with no failed sublayer in between; 0 when none
ClippingBaseOf(j) ==
    LET first == LastFailedBefore(j) + 1
        B == {k \in first..(j - 1) : k = first \/ ~sublayers[k].clipping}
    IN IF B = {} THEN 0 ELSE CHOOSE k \in B : \A m \in B : m <= k

\* C9 (amended): a rendered clipping sublayer is composited with the
\* pixelwise minimum of its own alpha and the alpha of its clipping base;
\* with no clipping base it is composited with its own alpha.
C9_ClipsToBase ==
    gpc = "done" =>
        \A j \in 1..Len(composited) :
            (sublayers[j].clipping /\ Rendered(j)) =>
                composited[j] =
                    IF ClippingBaseOf(j) = 0
                    THEN sublayers[j].render
                    ELSE PixMin(sublayers[j].render, sublayers[ClippingBaseOf(j)].render)

\* two clipping sublayers above one base: the second clips to the base
C9_Witness ==
    /\ gpc = "done"
    /\ Len(composited) = 3
    /\ ~sublayers[1].clipping /\ sublayers[2].clipping /\ sublayers[3].clipping
    /\ sublayers[1].render = <<128, 255>>
    /\ sublayers[2].render = <<0, 128>>
    /\ sublayers[3].render = <<255, 255>>
    /\ composited[3] = <<128, 255>>

(***************************************************************************)
(* Properties of the photo tag                                             *)
(***************************************************************************)
\* area of the layer's bounding box and of the canvas
LayerArea ==
    IF photo_layer.right > photo_layer.left /\ photo_layer.bottom > photo_layer.top
    THEN (photo_layer.right - photo_layer.left) * (photo_layer.bottom - photo_layer.top)
    ELSE 0
CanvasArea == PhotoCanvas[1] * PhotoCanvas[2]

CoversMoreThan80 == 100 * LayerArea > 80 * CanvasArea

\* the name holds one of the photo keywords, whatever the case
NameSignal ==
    photo_layer.name \in { <<"P", "h", "o", "t", "o", " ", "1">>,
                           <<"F", "A", "C", "E">>,
                           <<"s", "u", "r", "f", "a", "c", "e">>,
                           <<"U0424", "U043E", "U0442", "U043E">> }

\* skin pixels among the visible pixels, against 3.5%
SkinAbove == 1000 * layer_image.skin_pixels > 35 * layer_image.visible_pixels
SkinAtLeast ==
    /\ layer_image.visible_pixels > 0
    /\ 1000 * layer_image.skin_pixels >= 35 * layer_image.visible_pixels

LayersOf(item) == [j \in 1..Len(item.layers) |-> item.layers[j].layer]

Kinds(image) == [i \in 1..Len(image) |-> image[i].kind]

Elements(seq) == {seq[i] : i \in 1..Len(seq)}

\* the rendered layers of the document at positions lo..hi, in document order
RenderedBetween(lo, hi) ==
    SelectSeq([k \in 1..Len(psd) |-> k],
              LAMBDA k : k >= lo /\ k <= hi /\ k # product_layer /\ k \in Renders(psd))

LayerHandlers == {"_process_layer_by_layer", "_process_with_hybrid_fallback"}

\* C11: in layer_by_layer and hybrid modes every rendered layer is composited,
\* recolored exactly when a target color was supplied and the layer is not
\* tagged photo; a photo layer is composited as rendered.
C11_RecolorUnlessPhoto ==
    (returned = "image" /\ handler \in LayerHandlers) =>
        /\ \A i \in 1..Len(output) : \A j \in 1..Len(output[i].layers) :
              LET e == output[i].layers[j]
              IN /\ e.recolored <=> (target_color # NoColor /\ ~layer_is_photo[e.layer])
                 /\ layer_is_photo[e.layer] => ~e.recolored
        /\ \A k \in Elements(before_product) \cup Elements(after_product) :
              \E i \in 1..Len(output) : k \in Elements(LayersOf(output[i]))

\* a layer-by-layer composition with a target color, holding a photo layer
\* left as rendered below the product and a recolored layer above it
C11_Witness ==
    /\ returned = "image"
    /\ handler = "_process_layer_by_layer"
    /\ target_color # NoColor
    /\ Len(output) = 4
    /\ \E j \in 1..Len(output[2].layers) :
          layer_is_photo[output[2].layers[j].layer] /\ ~output[2].layers[j].recolored
    /\ \E j \in 1..Len(output[4].layers) : output[4].layers[j].recolored

\* C12 (as stated): in layer_by_layer mode, for a document with a product
\* layer, visible or not, the warped product lies above exactly the rendered
\* layers that precede the product layer and below exactly those that follow
\* it, each run in document order.
C12_ProductBetweenNeighbours ==
    (returned = "image" /\ render_mode = "layer_by_layer" /\ product_layer # 0) =>
        /\ Kinds(output) = <<"black", "layers", "warped", "layers">>
        /\ LayersOf(output[2]) = RenderedBetween(1, product_layer - 1)
        /\ LayersOf(output[4]) = RenderedBetween(product_layer + 1, Len(psd))

C14_NoRenderFailureSurfaces ==
    /\ returned # "exception"
    /\ returned = "image" =>
          /\ output # <<>>
          /\ \A k \in 1..Len(psd) :
                (psd[k].visible /\ ~psd[k].renders /\ k # product_layer) =>
                    /\ k \in Elements(failed_layers)
                    /\ \A i \in 1..Len(output) : k \notin Elements(LayersOf(output[i]))
          /\ (handler = "_process_with_hybrid_fallback" /\ flatten = "raise") =>
                /\ Kinds(output) = <<"black", "layers", "warped", "layers">>
                /\ LayersOf(output[2]) = before_product
                /\ LayersOf(output[4]) = after_product
          /\ (handler = "_process_with_composite_fallback" /\ flatten = "raise") =>
                Kinds(output) = <<"black", "warped">>

\* both fallbacks of a failing flatten are taken
C14_Witness ==
    /\ returned = "image"
    /\ flatten = "raise"
    /\ handler = "_process_with_composite_fallback"
    /\ failed_layers # <<>>
    /\ Kinds(output) = <<"black", "warped">>

(***************************************************************************)
(* Properties of the bounded caches, one thread                            *)
(***************************************************************************)
ClearOps == {"PSDProcessor.clear_cache", "clear_all_caches"}

\* C15 (as stated): after PSDProcessor.clear_cache or clear_all_caches the
\* cache of parsed layered documents holds no entries.
C15_ClearEmptiesPsdCache ==
    last_op.op \in ClearOps => caches["psd"] = <<>>

\* C17: one thread's lookups, insertions and clears keep the decoded-image
\* cache within 50 entries, the transformer cache within 15, the
\* layered-document cache within 10, the preview cache within 30 and the
\* color cache within 50.
C17_CachesWithinBounds ==
    /\ Len(caches["image"]) <= 50
    /\ Len(caches["transformer"]) <= 15
    /\ Len(caches["psd"]) <= 10
    /\ Len(caches["preview"]) <= 30
    /\ Len(caches["color"]) <= 50

\* the image cache was full and an insertion has just made room
C17_Witness ==
    /\ cache_name = "image"
    /\ last_op.inserted
    /\ Len(last_op.evicted) = 25
    /\ Len(caches["image"]) = 26

ClaimedCapacity == [image |-> 50, transformer |-> 15, psd |-> 10]
ClaimedEvicted == [image |-> 25, transformer |-> 5, psd |-> 1]

C29_FailedMissLeavesCache ==
    [][(/\ last_op'.op \in {"get_transformer_cached", "_get_cached_psd"}
        /\ last_op'.raised) => caches' = caches]_vars

(***************************************************************************)
(* Properties of the shared caches under two threads                       *)
(***************************************************************************)
\* C16 (as stated): under every interleaving of the generation thread and a
\* preview request the check-evict-insert sequences on a shared cache behave
\* as if atomic: no thread raises KeyError deleting or reading a key the
\* other thread removed, and the cache never exceeds its capacity.
C16_CacheAccessIsThreadSafe ==
    /\ \A t \in Threads : thread_error[t] = ""
    /\ shared_name \in SharedCaches =>
          Len(shared) <= (IF shared_name = "image" THEN 50
                          ELSE IF shared_name = "transformer" THEN 15 ELSE 10)

(***************************************************************************)
(* Properties of the recolor operation                                     *)
(***************************************************************************)
\* C19: the recolor operation returns every pixel with the alpha it had, and
\* with the RGB value it had when its alpha is at or below the visibility
\* threshold (alpha <= 20).
C19_AlphaKeptInvisibleUntouched ==
    rpc = "done" =>
        /\ Len(recolor_result.pixels) = Len(recolor_image.pixels)
        /\ recolor_result.channels = recolor_image.channels
        /\ \A i \in 1..Len(recolor_image.pixels) :
              /\ recolor_result.pixels[i].alpha = recolor_image.pixels[i].alpha
              /\ (recolor_image.channels = 4 /\ recolor_image.pixels[i].alpha <= 20) =>
                    recolor_result.pixels[i].rgb = recolor_image.pixels[i].rgb

\* an RGBA image whose pixel of alpha 20 keeps its color under a full mask
\* while its pixel of alpha 21 is recolored
C19_Witness ==
    /\ rpc = "done"
    /\ recolor_image.channels = 4
    /\ \E i, j \in 1..Len(recolor_image.pixels) :
          /\ recolor_image.pixels[i].alpha = 20
          /\ final_mask[i] = 255
          /\ rgb_recolored[i] # recolor_image.pixels[i].rgb
          /\ recolor_result.pixels[i].rgb = recolor_image.pixels[i].rgb
          /\ recolor_image.pixels[j].alpha = 21
          /\ final_mask[j] = 255
          /\ recolor_result.pixels[j].rgb = rgb_recolored[j]
          /\ recolor_result.pixels[j].rgb # recolor_image.pixels[j].rgb


(***************************************************************************)
(* Properties of get_dominant_color                                        *)
(***************************************************************************)
\* C20: get_dominant_color returns the neutral gray (128,128,128) whenever
\* the mean saturation of the unfiltered pixels is below 15, and whenever
\* fewer than 10 pixels remain after removing those with V < 10, V > 245 or
\* S < 10; in every other case it returns a color derived from the filtered
\* pixels.
C20_NeutralGrayFallback ==
    dpc = "done" =>
        LET filtered == filter_pixels(image_pixels)
            neutral == \/ average_saturation_below(image_pixels, 15)
                       \/ PixelCount(filtered) < 10
        IN /\ neutral => dominant.kind = "neutral"
           /\ ~neutral => /\ dominant.kind # "neutral"
                           /\ dominant.colors # {}
                           /\ dominant.colors \subseteq Unique(filtered)

\* ten saturated pixels survive the filter, yet the image as a whole is gray:
\* the neutral gray is returned before any filtering
C20_Witness ==
    /\ dpc = "done"
    /\ PixelCount(filter_pixels(image_pixels)) >= 10
    /\ ~average_saturation_below(filter_pixels(image_pixels), 15)
    /\ average_saturation_below(image_pixels, 15)
    /\ dominant.kind = "neutral"
    /\ dominant.path = "low_saturation"


\* C21: whenever the mean saturation of the unfiltered pixels is at least 30,
\* the color returned by get_dominant_color has saturation of at least 20 on
\* the 0-255 scale: a candidate below 20 is boosted to 23, and the boosted
\* color, rounded to 8-bit RGB, still has saturation >= 20.
C21_BoostedSaturationAtLeast20 ==
    (/\ dpc = "done"
     /\ ~average_saturation_below(image_pixels, 30)) =>
        255 * (MaxChannel(dominant.color) - MinChannel(dominant.color))
            >= 20 * MaxChannel(dominant.color)


(***************************************************************************)
(* Properties of the cyclic distribution of transform_multiple             *)
(***************************************************************************)
\* the point sets (0-based) beyond the end of a non-empty product list
BeyondList ==
    IF product_paths = <<>> THEN {}
    ELSE {idx \in 0..(Len(point_sets) - 1) : idx >= Len(product_paths)}

SingleCalls == {c \in Calls : c.op = "transform_product" /\ ProductFile(c.paths[1]) # NoArray}

\* C22: for a transformer with a single point set and any loadable product,
\* transform_multiple([product]) returns the same raster as
\* transform_product(product), and an empty error list.
C22_SingleAreaSameRaster ==
    Len(raster_self.point_sets) = 1 =>
        \A c \in SingleCalls :
            LET single == call_results[c]
                multi == call_results[Call("transform_multiple", c.paths, FALSE)]
            IN (single # NotCalled /\ multi # NotCalled) =>
                  /\ multi.out.channels = single.out.channels
                  /\ multi.out.px = single.out.px
                  /\ multi.errs = <<>>
                  /\ multi.raised = ""

\* both calls made with rounded corners and a color blend, the product
\* composited into the template
C22_Witness ==
    /\ Len(raster_self.point_sets) = 1
    /\ raster_self.corner_radius > 0
    /\ raster_self.blend_strength > 0
    /\ \E c \in SingleCalls :
          /\ call_results[c] # NotCalled
          /\ call_results[Call("transform_multiple", c.paths, FALSE)] # NotCalled
          /\ call_results[c].out.px = call_results[Call("transform_multiple", c.paths, FALSE)].out.px
          /\ call_results[c].out.px # template_file.px
          /\ call_results[c].avgs # <<NoAverage>>

\* C23: in a multi-area composite the blend color of every area is the
\* average of the central sample region of the template, whatever was
\* composited into the areas before it.
C23_BlendColorFromTemplate ==
    \A c \in Calls :
        c.op = "transform_multiple" =>
            \A k \in 1..Len(call_results[c].avgs) :
                call_results[c].avgs[k] # NoAverage =>
                    call_results[c].avgs[k] = avg_color(template_file)

\* C30: no sequence of transform_product, transform_multiple and
\* get_warped_product calls modifies the stored template raster or an entry
\* of the decoded-image cache; no returned image shares a buffer with either,
\* so nothing the caller does to it reaches them; a repeated call returns
\* what it returned before.
C30_TemplateAndCacheUntouched ==
    /\ raster_mem.template.px = template_file.px
    /\ raster_mem.template.channels = template_file.channels
    /\ \A k \in DOMAIN raster_mem.cache :
          raster_mem.cache[k] # NoArray =>
              LET file == IF k = TemplateKey THEN template_file ELSE ProductFile(k)
              IN /\ raster_mem.cache[k].px = file.px
                 /\ raster_mem.cache[k].channels = file.channels
    /\ \A c \in DOMAIN call_results : call_results[c].out.buf \in {"fresh", "none"}
    /\ ~repeated_differs

\* a product loaded by one call and served from the cache to the next, the
\* caller having overwritten what it got
C30_Witness ==
    /\ ncalls = 2
    /\ caller_wrote
    /\ \E p \in RasterPaths :
          /\ raster_mem.cache[p] # NoArray
          /\ call_results[Call("load_image_cv2", <<p>>, FALSE)] # NotCalled
          /\ last_call = Call("load_image_cv2", <<p>>, FALSE)
          /\ call_results[Call("transform_product", <<p>>, FALSE)] # NotCalled


(***************************************************************************)
(* Properties of process_with_warped_product without a product layer       *)
(***************************************************************************)
\* C25: process_with_warped_product inserts the warped product only when a
\* product layer is found: when no top-level layer name holds a product
\* keyword, the output is the (recolored) background only and the warped
\* product is not composited into it, in every render mode.
C25_NoProductLayerNoProduct ==
    (returned = "image" /\ product_layer = 0) =>
        ~(warped_pil.visible /\ \E i \in 1..Len(output) : output[i].kind = "warped")


(***************************************************************************)
(* Properties of the generation job                                        *)
(***************************************************************************)
\* C26: the generation job checks its cancellation flag between batch
\* items: once a stop request has been accepted during a run, that run
\* starts no new item (at most the item in flight completes).
C26_StopStartsNoNewItem ==
    \A run \in Runs : tasks[run].stop_accepted => ~tasks[run].started_after_stop

\* C28: at most one generation task executes at any time: a start request
\* issued after an earlier start was accepted and before that generation has
\* finished is rejected.
C28_OneGenerationAtATime ==
    Cardinality({run \in Runs : Executing(tasks[run])}) <= 1


(***************************************************************************)
(* Properties of the stored templates                                      *)
(***************************************************************************)
\* C27: after any sequence of uploads and update_template calls, every
\* stored template with a non-empty point_sets list has points equal to the
\* points of its first point set.
C27_PointsMirrorFirstSet ==
    \A id \in TemplateIds :
        (stored[id].present /\ stored[id].point_sets # <<>>) =>
            stored[id].points = stored[id].point_sets[1].points

====
